---------------------------- MODULE Spec2Model ----------------------------
(***************************************************************************)
(* A model of the OAuth authorization-server proxy of notion-mcp-remote:   *)
(* the encrypted token store (src/auth/storage.py) and the provider that   *)
(* drives the three-party flow on top of it (src/auth/provider.py).        *)
(*                                                                         *)
(* Scheduling.  Every provider method is an `async def` run by one event   *)
(* loop.  A coroutine is only suspended at an `await`; the single await of *)
(* the provider is the upstream HTTP POST of exchange_notion_code.  Hence  *)
(* every provider method is one atomic action, except exchange_notion_code *)
(* which is two: the part before the await and the part after it.          *)
(*                                                                         *)
(* Time is the integer number of seconds read by time.time().  Fresh       *)
(* values of secrets.token_urlsafe (states, codes, tokens) are drawn from   *)
(* one counter and client ids (secrets.token_hex) from another, so that no *)
(* two generated values are ever equal.                                    *)
(***************************************************************************)
EXTENDS Integers, Sequences, FiniteSets, TLC

VARIABLES
    data,      \* TokenStore._data: the five collections
    file,      \* the live file tokens.json (NoFile until the first _save)
    now,       \* time.time()
    ticks,     \* how many times the clock has been advanced (bounds the run)
    nextId,    \* the next fresh value of secrets.token_urlsafe
    inflight,  \* exchange_notion_code calls suspended at the upstream POST
    authorized,\* history: every authorize call, with the state it generated
    minted,    \* history: every proxy authorization code minted, with its state
    issued,    \* history: every OAuthToken returned by an exchange
    flow,      \* the end-to-end scenario: its position and what it obtained
    saving,    \* the _save in progress: its position, its temporary file, its outcome
    proc,      \* "up" while the server process runs, "down" after a crash
    requests,  \* the HTTP requests being served: their scope and their context
    responses, \* history: the HTTP responses of the callback route
    threads    \* threads inside the store: who holds the lock and where each is

\* the variables of the persistence, request and locking specifications
ext == <<saving, proc, requests, responses, threads>>

vars == <<data, file, now, ticks, nextId, inflight, authorized, minted, issued, flow, ext>>

---------------------------------------------------------------------------
(* Program constants                                                       *)

AUTH_CODE_LIFETIME == 300

ACCESS_TOKEN_LIFETIME == 86400

PENDING_AUTH_LIFETIME == 600

(* Bounds of the model                                                     *)

MaxClients == 2

MaxFlows == 1

MaxCodes == 2

MaxPairs == 2

MaxTicks == 1

MaxInflight == 2

---------------------------------------------------------------------------
(* Python values                                                           *)

\* None where a record (dict, model object) is expected
None == [none |-> TRUE]

\* None where a string is expected
NoneStr == "<None>"

\* None where a list of scopes is expected
NoneScopes == <<NoneStr>>

\* `x or []` for an optional list
OrEmpty(scopes) == IF scopes = NoneScopes THEN <<>> ELSE scopes

\* truthiness of an optional string
Truthy(s) == s # NoneStr /\ s # ""

\* dict operations
DictGet(d, k) == IF k \in DOMAIN d THEN d[k] ELSE None

DictSet(d, k, v) == [x \in (DOMAIN d) \cup {k} |-> IF x = k THEN v ELSE d[x]]

DictPop(d, k) == [x \in (DOMAIN d) \ {k} |-> d[x]]

EmptyDict == [x \in {} |-> None]

---------------------------------------------------------------------------
(* TokenStore                                                              *)
(* A store value st is [data |-> the five collections, file |-> the file]. *)
(* Every store operation is one critical section (with self._lock).        *)

SECRET == "session-secret"

NoFile == [missing |-> TRUE]

EmptyData ==
    [clients |-> EmptyDict, pending_auth |-> EmptyDict, auth_codes |-> EmptyDict,
     access_tokens |-> EmptyDict, refresh_tokens |-> EmptyDict]

\* json.dumps of the five collections, and the text of a file that holds
\* something else than JSON
json_dumps(doc) == [json |-> doc]

NotJson == [text |-> "not json"]

\* json.loads: the document, or JSONDecodeError
json_loads(text) ==
    IF "json" \in DOMAIN text
    THEN [raised |-> "", val |-> text.json]
    ELSE [raised |-> "JSONDecodeError", val |-> None]

\* Fernet under the key derived from the secret: the token is readable only
\* with the same key
Encrypt(secret, doc) == [key |-> secret, plaintext |-> doc]

\* a file that holds no bytes yet, and one that holds only the first bytes of
\* a Fernet token
EmptyFile == [bytes |-> 0]

Torn(token) == [key |-> token.key, prefix |-> TRUE]

\* mutant: the signature is not checked against the key
Decrypt_any_key(secret, token) ==
    IF "plaintext" \in DOMAIN token
    THEN [raised |-> "", val |-> token.plaintext]
    ELSE [raised |-> "InvalidToken", val |-> None]

\* Fernet.decrypt: the plaintext of a whole token made under the same key,
\* InvalidToken for anything else
Decrypt(secret, token) ==
    IF "plaintext" \in DOMAIN token /\ token.key = secret
    THEN [raised |-> "", val |-> token.plaintext]
    ELSE [raised |-> "InvalidToken", val |-> None]

\* _load: the collections the store starts with, given the live file
_load(f) ==
    IF f = NoFile THEN EmptyData
    ELSE LET decrypted == Decrypt(SECRET, f) IN
         IF decrypted.raised # "" THEN EmptyData
         ELSE LET parsed == json_loads(decrypted.val) IN
              IF parsed.raised # "" THEN EmptyData ELSE parsed.val

\* _save run to its end without a failure: the encrypted snapshot replaces
\* the live file
_save(st) == [st EXCEPT !.file = Encrypt(SECRET, json_dumps(st.data))]

\* mutant: the new client takes the place of the registered ones
store_client_alone(st, client_id, client_data) ==
    _save([st EXCEPT !.data.clients = DictSet(EmptyDict, client_id, client_data)])

store_client(st, client_id, client_data) ==
    _save([st EXCEPT !.data.clients = DictSet(@, client_id, client_data)])

get_client(st, client_id) == DictGet(st.data.clients, client_id)

store_pending_auth(st, state, auth_data) ==
    _save([st EXCEPT !.data.pending_auth = DictSet(@, state, auth_data)])

\* mutant: the expiry of the pending record is not looked at
get_pending_auth_no_expiry(st, state, t) ==
    [st |-> st, val |-> DictGet(st.data.pending_auth, state)]

\* mutant: the pending record is taken out of the store by the lookup
get_pending_auth_consumes(st, state, t) ==
    LET d == DictGet(st.data.pending_auth, state) IN
    IF d # None
    THEN [st |-> _save([st EXCEPT !.data.pending_auth = DictPop(@, state)]),
          val |-> IF d.expires_at < t THEN None ELSE d]
    ELSE [st |-> st, val |-> d]

\* a get with eviction returns the store after the call and the value
get_pending_auth(st, state, t) ==
    LET d == DictGet(st.data.pending_auth, state) IN
    IF d # None /\ d.expires_at < t
    THEN [st |-> _save([st EXCEPT !.data.pending_auth = DictPop(@, state)]), val |-> None]
    ELSE [st |-> st, val |-> d]

delete_pending_auth(st, state) ==
    _save([st EXCEPT !.data.pending_auth = DictPop(@, state)])

\* mutant: the minted code is not stored
store_auth_code_dropped(st, code, code_data) == _save(st)

store_auth_code(st, code, code_data) ==
    _save([st EXCEPT !.data.auth_codes = DictSet(@, code, code_data)])

\* mutant: a lookup sweeps every expired code out of the collection
get_auth_code_sweep(st, code, t) ==
    LET d == DictGet(st.data.auth_codes, code)
        live == {k \in DOMAIN st.data.auth_codes : ~(st.data.auth_codes[k].expires_at < t)}
        swept == [st EXCEPT !.data.auth_codes = [k \in live |-> st.data.auth_codes[k]]]
    IN  IF swept.data # st.data
        THEN [st |-> _save(swept), val |-> DictGet(swept.data.auth_codes, code)]
        ELSE [st |-> st, val |-> d]

get_auth_code(st, code, t) ==
    LET d == DictGet(st.data.auth_codes, code) IN
    IF d # None /\ d.expires_at < t
    THEN [st |-> _save([st EXCEPT !.data.auth_codes = DictPop(@, code)]), val |-> None]
    ELSE [st |-> st, val |-> d]

\* mutant: the used code is left in the store
delete_auth_code_kept(st, code) == _save(st)

delete_auth_code(st, code) ==
    _save([st EXCEPT !.data.auth_codes = DictPop(@, code)])

store_access_token(st, token, token_data) ==
    _save([st EXCEPT !.data.access_tokens = DictSet(@, token, token_data)])

\* mutant: a token counts as expired from expires_at on, not after it
get_access_token_early(st, token, t) ==
    LET d == DictGet(st.data.access_tokens, token) IN
    IF d # None /\ d.expires_at # 0 /\ d.expires_at <= t
    THEN [st |-> _save([st EXCEPT !.data.access_tokens = DictPop(@, token)]), val |-> None]
    ELSE [st |-> st, val |-> d]

get_access_token(st, token, t) ==
    LET d == DictGet(st.data.access_tokens, token) IN
    IF d # None /\ d.expires_at # 0 /\ d.expires_at < t
    THEN [st |-> _save([st EXCEPT !.data.access_tokens = DictPop(@, token)]), val |-> None]
    ELSE [st |-> st, val |-> d]

\* mutant: the refresh token is stored bound to another upstream token
store_refresh_token_other_upstream(st, token, token_data) ==
    _save([st EXCEPT !.data.refresh_tokens =
              DictSet(@, token, [token_data EXCEPT !.notion_token = "ntn_mallory"])])

store_refresh_token(st, token, token_data) ==
    _save([st EXCEPT !.data.refresh_tokens = DictSet(@, token, token_data)])

\* mutant: a refresh token whose access token is gone is not found
get_refresh_token_with_access(st, token) ==
    LET d == DictGet(st.data.refresh_tokens, token) IN
    IF d # None /\ d.access_token \notin DOMAIN st.data.access_tokens THEN None ELSE d

get_refresh_token(st, token) == DictGet(st.data.refresh_tokens, token)

\* mutant: the old access token survives the rotation
rotate_tokens_keep_old_access(st, old_access_token, old_refresh_token, new_access_token, new_access_data, new_refresh_token, new_refresh_data) ==
    LET r1 == DictPop(st.data.refresh_tokens, old_refresh_token)
    IN  _save([st EXCEPT !.data.access_tokens = DictSet(@, new_access_token, new_access_data),
                        !.data.refresh_tokens = DictSet(r1, new_refresh_token, new_refresh_data)])

\* mutant: the old refresh token survives the rotation
rotate_tokens_keep_old_refresh(st, old_access_token, old_refresh_token, new_access_token, new_access_data, new_refresh_token, new_refresh_data) ==
    LET a1 == IF old_access_token # 0
              THEN DictPop(st.data.access_tokens, old_access_token)
              ELSE st.data.access_tokens
    IN  _save([st EXCEPT !.data.access_tokens = DictSet(a1, new_access_token, new_access_data),
                        !.data.refresh_tokens = DictSet(@, new_refresh_token, new_refresh_data)])

\* old_access_token is 0 for None (a generated token is never 0)
rotate_tokens(st, old_access_token, old_refresh_token, new_access_token, new_access_data, new_refresh_token, new_refresh_data) ==
    LET a1 == IF old_access_token # 0
              THEN DictPop(st.data.access_tokens, old_access_token)
              ELSE st.data.access_tokens
        r1 == DictPop(st.data.refresh_tokens, old_refresh_token)
    IN  _save([st EXCEPT !.data.access_tokens = DictSet(a1, new_access_token, new_access_data),
                        !.data.refresh_tokens = DictSet(r1, new_refresh_token, new_refresh_data)])

\* mutant: every refresh token goes with the access token
delete_tokens_for_access_token_sweep(st, access_token) ==
    _save([st EXCEPT !.data.access_tokens = DictPop(@, access_token),
                     !.data.refresh_tokens = EmptyDict])

delete_tokens_for_access_token(st, access_token) ==
    LET token_data == DictGet(st.data.access_tokens, access_token)
        a1 == DictPop(st.data.access_tokens, access_token)
        r1 == IF token_data # None
              THEN DictPop(st.data.refresh_tokens, token_data.refresh_token)
              ELSE st.data.refresh_tokens
    IN  _save([st EXCEPT !.data.access_tokens = a1, !.data.refresh_tokens = r1])

\* mutant: only the refresh token is deleted
delete_tokens_for_refresh_token_only(st, refresh_token) ==
    _save([st EXCEPT !.data.refresh_tokens = DictPop(@, refresh_token)])

delete_tokens_for_refresh_token(st, refresh_token) ==
    LET token_data == DictGet(st.data.refresh_tokens, refresh_token)
        r1 == DictPop(st.data.refresh_tokens, refresh_token)
        a1 == IF token_data # None
              THEN DictPop(st.data.access_tokens, token_data.access_token)
              ELSE st.data.access_tokens
    IN  _save([st EXCEPT !.data.access_tokens = a1, !.data.refresh_tokens = r1])

---------------------------------------------------------------------------
(* The environment: what callers and the upstream provider may send        *)

NOTION_AUTHORIZE_URL == "https://api.notion.com/v1/oauth/authorize"

NOTION_CLIENT_ID == "notion-client-id"

BASE_URL == "https://proxy.example"

\* AuthorizationParams a downstream client may present at /authorize
AuthorizationParams ==
    {[redirect_uri |-> [text |-> "https://claude.ai/cb", has_query |-> FALSE],
      code_challenge |-> "challenge-1", state |-> NoneStr, scopes |-> NoneScopes,
      redirect_uri_provided_explicitly |-> FALSE, resource |-> NoneStr],
     [redirect_uri |-> [text |-> "https://app.example/cb?x=1", has_query |-> TRUE],
      code_challenge |-> "challenge-2", state |-> "xyz", scopes |-> <<"read">>,
      redirect_uri_provided_explicitly |-> TRUE, resource |-> "https://proxy.example/mcp"]}

\* the scopes a caller may pass to exchange_refresh_token
RequestedScopes == {<<>>, <<"write">>}

\* the codes the upstream provider hands to the callback
NotionCodes == {"notion-code-1", "notion-code-2"}

\* the upstream token endpoint's answers: a status, a body, and what
\* resp.json() makes of the body -- decode_error is the message of the
\* JSONDecodeError when the body is not JSON, access_token the value of that
\* key when the body is a JSON object (NoneStr when it has no such key)
UpstreamResponses ==
    {[status |-> 200, body |-> "{access_token: ntn_alice}", decode_error |-> "",
      access_token |-> "ntn_alice"],
     [status |-> 200, body |-> "{access_token: ntn_bob}", decode_error |-> "",
      access_token |-> "ntn_bob"],
     [status |-> 200, body |-> "{error: invalid_grant}", decode_error |-> "",
      access_token |-> NoneStr],
     [status |-> 200, body |-> "<html>", access_token |-> NoneStr,
      decode_error |-> "Expecting value: line 1 column 1 (char 0)"],
     [status |-> 200, body |-> "{", access_token |-> NoneStr,
      decode_error |-> "Expecting property name enclosed in double quotes: line 1 column 2 (char 1)"],
     [status |-> 400, body |-> "{error: invalid_grant}", decode_error |-> "",
      access_token |-> NoneStr],
     [status |-> 401, body |-> "{error: unauthorized}", decode_error |-> "",
      access_token |-> NoneStr],
     [status |-> 500, body |-> "<html>", access_token |-> NoneStr,
      decode_error |-> "Expecting value: line 1 column 1 (char 0)"]}

\* resp.raise_for_status() raises unless the status is a 2xx
IsSuccess(resp) == resp.status \in 200 .. 299

\* a string that was never generated (generated values start at 1)
Unknown == 0

\* what a caller may present as a state, a code or a token: every value ever
\* generated for that purpose, whether still stored or not, and an unknown one
PresentableStates == {a.state : a \in authorized} \cup {Unknown}

PresentableCodes == {m.code : m \in minted} \cup {Unknown}

PresentableTokens ==
    {e.access_token : e \in issued} \cup {e.refresh_token : e \in issued} \cup {Unknown}

\* how far the clock may jump: to the end of a lifetime, or just past it
TickSteps == {AUTH_CODE_LIFETIME, ACCESS_TOKEN_LIFETIME, ACCESS_TOKEN_LIFETIME + 1}

\* the registered clients (OAuthClientInformationFull objects the front end
\* obtained from get_client)
Registered == DOMAIN data.clients

---------------------------------------------------------------------------
(* NotionOAuthProvider                                                     *)
(* Each operator computes, from the store st and the call's arguments,     *)
(* the store after the call and the value returned or the error raised.    *)

provider_get_client(st, client_id) ==
    [st |-> st, result |-> get_client(st, client_id)]

\* client_id is the fresh secrets.token_hex(16), client_secret the fresh
\* secrets.token_hex(32)
register_client(st, client_name, client_id, client_secret, t) ==
    [st |-> store_client(st, client_id,
                [client_id |-> client_id, client_secret |-> client_secret,
                 client_id_issued_at |-> t, client_secret_expires_at |-> 0,
                 client_name |-> client_name]),
     result |-> None]

\* mutant: the PKCE challenge of the request is not the one stored
authorize_other_challenge(st, client_id, params, notion_state, t) ==
    [st |-> store_pending_auth(st, notion_state,
                [client_id |-> client_id,
                 redirect_uri |-> params.redirect_uri,
                 code_challenge |-> "challenge-0",
                 state |-> params.state,
                 scopes |-> params.scopes,
                 redirect_uri_provided_explicitly |-> params.redirect_uri_provided_explicitly,
                 resource |-> IF Truthy(params.resource) THEN params.resource ELSE NoneStr,
                 expires_at |-> t + PENDING_AUTH_LIFETIME]),
     result |-> [url |-> NOTION_AUTHORIZE_URL,
                 client_id |-> NOTION_CLIENT_ID,
                 redirect_uri |-> <<BASE_URL, "/oauth/callback">>,
                 response_type |-> "code", owner |-> "user",
                 state |-> notion_state]]

authorize(st, client_id, params, notion_state, t) ==
    [st |-> store_pending_auth(st, notion_state,
                [client_id |-> client_id,
                 redirect_uri |-> params.redirect_uri,
                 code_challenge |-> params.code_challenge,
                 state |-> params.state,
                 scopes |-> params.scopes,
                 redirect_uri_provided_explicitly |-> params.redirect_uri_provided_explicitly,
                 resource |-> IF Truthy(params.resource) THEN params.resource ELSE NoneStr,
                 expires_at |-> t + PENDING_AUTH_LIFETIME]),
     result |-> [url |-> NOTION_AUTHORIZE_URL,
                 client_id |-> NOTION_CLIENT_ID,
                 redirect_uri |-> <<BASE_URL, "/oauth/callback">>,
                 response_type |-> "code", owner |-> "user",
                 state |-> notion_state]]

\* A str that goes into a query string, as the sequence of its characters;
\* a run of unreserved characters is kept as one element
Chars(s) ==
    CASE s = "code" -> <<"code">>
      [] s = "state" -> <<"state">>
      [] s = "xyz" -> <<"xyz">>
      [] s = "a b&c=d" -> <<"a", " ", "b", "&", "c", "=", "d">>
      [] s = "" -> <<>>

\* secrets.token_urlsafe(32): unreserved characters only
TokenChars(token) == <<ToString(token)>>

\* urllib.parse.quote_plus, character by character: a space becomes "+",
\* a reserved character "%" and its two hexadecimal digits
QuoteChar(ch) ==
    CASE ch = " " -> <<"+">>
      [] ch = "&" -> <<"%", "26">>
      [] ch = "=" -> <<"%", "3D">>
      [] ch = "+" -> <<"%", "2B">>
      [] ch = "%" -> <<"%", "25">>
      [] ch = "?" -> <<"%", "3F">>
      [] ch = "#" -> <<"%", "23">>
      [] OTHER -> <<ch>>

RECURSIVE quote_plus(_)
quote_plus(cs) == IF cs = <<>> THEN <<>> ELSE QuoteChar(Head(cs)) \o quote_plus(Tail(cs))

\* urllib.parse.urlencode of a list of (key, value) pairs of character
\* sequences: key=value joined by "&"
RECURSIVE urlencode(_)
urlencode(pairs) ==
    IF pairs = <<>> THEN <<>>
    ELSE quote_plus(pairs[1][1]) \o <<"=">> \o quote_plus(pairs[1][2])
            \o (IF Len(pairs) > 1 THEN <<"&">> \o urlencode(Tail(pairs)) ELSE <<>>)

\* exchange_notion_code up to the await of the upstream POST
exchange_notion_code_lookup(st, code, state, t) ==
    LET g == get_pending_auth(st, state, t) IN
    IF g.val = None
    THEN [st |-> g.st, raised |-> "ValueError",
          message |-> "Unknown or expired auth state", pending |-> None]
    ELSE [st |-> g.st, raised |-> "", message |-> "", pending |-> g.val]

\* exchange_notion_code from the upstream response on
exchange_notion_code_resume(st, state, pending, resp, our_code, t) ==
    IF ~IsSuccess(resp)
    THEN [st |-> st, raised |-> "ValueError",
          message |-> "Failed to exchange authorization code with Notion",
          result |-> None]
    ELSE IF resp.decode_error # ""
    THEN [st |-> st, raised |-> "JSONDecodeError", message |-> resp.decode_error,
          result |-> None]
    ELSE IF resp.access_token = NoneStr
    THEN [st |-> st, raised |-> "KeyError", message |-> "access_token", result |-> None]
    ELSE LET s1 == store_auth_code(st, our_code,
                      [notion_token |-> resp.access_token,
                       client_id |-> pending.client_id,
                       code_challenge |-> pending.code_challenge,
                       redirect_uri |-> pending.redirect_uri,
                       redirect_uri_provided_explicitly |-> pending.redirect_uri_provided_explicitly,
                       scopes |-> OrEmpty(pending.scopes),
                       resource |-> pending.resource,
                       expires_at |-> t + AUTH_CODE_LIFETIME])
             s2 == delete_pending_auth(s1, state)
         IN  [st |-> s2, raised |-> "", message |-> "",
              result |-> [redirect_uri |-> pending.redirect_uri,
                          separator |-> IF pending.redirect_uri.has_query THEN "&" ELSE "?",
                          params |-> IF Truthy(pending.state)
                                     THEN <<<<"code", our_code>>, <<"state", pending.state>>>>
                                     ELSE <<<<"code", our_code>>>>,
                          query |-> urlencode(
                                     IF Truthy(pending.state)
                                     THEN <<<<Chars("code"), TokenChars(our_code)>>,
                                            <<Chars("state"), Chars(pending.state)>>>>
                                     ELSE <<<<Chars("code"), TokenChars(our_code)>>>>)]]

\* mutant: the code is returned to whichever client presents it
load_authorization_code_any_client(st, client_id, authorization_code, t) ==
    LET g == get_auth_code(st, authorization_code, t) IN
    IF g.val = None THEN [st |-> g.st, result |-> None]
    ELSE [st |-> g.st,
          result |-> [code |-> authorization_code,
                      client_id |-> g.val.client_id,
                      code_challenge |-> g.val.code_challenge,
                      redirect_uri |-> g.val.redirect_uri,
                      redirect_uri_provided_explicitly |-> g.val.redirect_uri_provided_explicitly,
                      scopes |-> OrEmpty(g.val.scopes),
                      expires_at |-> g.val.expires_at,
                      resource |-> g.val.resource]]

load_authorization_code(st, client_id, authorization_code, t) ==
    LET g == get_auth_code(st, authorization_code, t) IN
    IF g.val = None THEN [st |-> g.st, result |-> None]
    ELSE IF g.val.client_id # client_id THEN [st |-> g.st, result |-> None]
    ELSE [st |-> g.st,
          result |-> [code |-> authorization_code,
                      client_id |-> g.val.client_id,
                      code_challenge |-> g.val.code_challenge,
                      redirect_uri |-> g.val.redirect_uri,
                      redirect_uri_provided_explicitly |-> g.val.redirect_uri_provided_explicitly,
                      scopes |-> OrEmpty(g.val.scopes),
                      expires_at |-> g.val.expires_at,
                      resource |-> g.val.resource]]

\* access_token and refresh_token are the two fresh secrets.token_urlsafe(32)
exchange_authorization_code(st, client_id, code, access_token, refresh_token, t) ==
    LET g == get_auth_code(st, code, t) IN
    IF g.val = None
    THEN [st |-> g.st, raised |-> "TokenError", error |-> "invalid_grant", result |-> None]
    ELSE LET notion_token == g.val.notion_token
             scopes == OrEmpty(g.val.scopes)
             s1 == store_access_token(g.st, access_token,
                      [notion_token |-> notion_token, client_id |-> client_id,
                       scopes |-> scopes, expires_at |-> t + ACCESS_TOKEN_LIFETIME,
                       refresh_token |-> refresh_token, resource |-> g.val.resource])
             s2 == store_refresh_token(s1, refresh_token,
                      [notion_token |-> notion_token, client_id |-> client_id,
                       scopes |-> scopes, access_token |-> access_token,
                       resource |-> g.val.resource])
             s3 == delete_auth_code(s2, code)
         IN  [st |-> s3, raised |-> "", error |-> "",
              result |-> [access_token |-> access_token, token_type |-> "Bearer",
                          expires_in |-> ACCESS_TOKEN_LIFETIME,
                          refresh_token |-> refresh_token, scope |-> scopes]]

load_access_token(st, token, t) ==
    LET g == get_access_token(st, token, t) IN
    IF g.val = None THEN [st |-> g.st, result |-> None]
    ELSE [st |-> g.st,
          result |-> [token |-> token, client_id |-> g.val.client_id,
                      scopes |-> OrEmpty(g.val.scopes),
                      expires_at |-> g.val.expires_at,
                      resource |-> g.val.resource]]

\* mutant: a refresh token of another client is answered with a value of its own
load_refresh_token_tells_mismatch(st, client_id, refresh_token) ==
    LET d == get_refresh_token(st, refresh_token) IN
    IF d = None THEN [st |-> st, result |-> None]
    ELSE IF d.client_id # client_id THEN [st |-> st, result |-> [error |-> "wrong_client"]]
    ELSE [st |-> st,
          result |-> [token |-> refresh_token, client_id |-> d.client_id,
                      scopes |-> OrEmpty(d.scopes)]]

load_refresh_token(st, client_id, refresh_token) ==
    LET d == get_refresh_token(st, refresh_token) IN
    IF d = None THEN [st |-> st, result |-> None]
    ELSE IF d.client_id # client_id THEN [st |-> st, result |-> None]
    ELSE [st |-> st,
          result |-> [token |-> refresh_token, client_id |-> d.client_id,
                      scopes |-> OrEmpty(d.scopes)]]

\* mutant: the resource of the presented refresh token is not carried forward
exchange_refresh_token_drops_resource(st, client_id, refresh_token, scopes, new_access_token, new_refresh_token, t) ==
    LET d == get_refresh_token(st, refresh_token) IN
    IF d = None
    THEN [st |-> st, raised |-> "TokenError", error |-> "invalid_grant", result |-> None]
    ELSE LET notion_token == d.notion_token
             effective_scopes == IF scopes # <<>> THEN scopes ELSE OrEmpty(d.scopes)
             resource == NoneStr
             s1 == rotate_tokens(st, d.access_token, refresh_token,
                      new_access_token,
                      [notion_token |-> notion_token, client_id |-> client_id,
                       scopes |-> effective_scopes,
                       expires_at |-> t + ACCESS_TOKEN_LIFETIME,
                       refresh_token |-> new_refresh_token, resource |-> resource],
                      new_refresh_token,
                      [notion_token |-> notion_token, client_id |-> client_id,
                       scopes |-> effective_scopes, access_token |-> new_access_token,
                       resource |-> resource])
         IN  [st |-> s1, raised |-> "", error |-> "",
              result |-> [access_token |-> new_access_token, token_type |-> "Bearer",
                          expires_in |-> ACCESS_TOKEN_LIFETIME,
                          refresh_token |-> new_refresh_token, scope |-> effective_scopes]]

exchange_refresh_token(st, client_id, refresh_token, scopes, new_access_token, new_refresh_token, t) ==
    LET d == get_refresh_token(st, refresh_token) IN
    IF d = None
    THEN [st |-> st, raised |-> "TokenError", error |-> "invalid_grant", result |-> None]
    ELSE LET notion_token == d.notion_token
             effective_scopes == IF scopes # <<>> THEN scopes ELSE OrEmpty(d.scopes)
             resource == d.resource
             s1 == rotate_tokens(st, d.access_token, refresh_token,
                      new_access_token,
                      [notion_token |-> notion_token, client_id |-> client_id,
                       scopes |-> effective_scopes,
                       expires_at |-> t + ACCESS_TOKEN_LIFETIME,
                       refresh_token |-> new_refresh_token, resource |-> resource],
                      new_refresh_token,
                      [notion_token |-> notion_token, client_id |-> client_id,
                       scopes |-> effective_scopes, access_token |-> new_access_token,
                       resource |-> resource])
         IN  [st |-> s1, raised |-> "", error |-> "",
              result |-> [access_token |-> new_access_token, token_type |-> "Bearer",
                          expires_in |-> ACCESS_TOKEN_LIFETIME,
                          refresh_token |-> new_refresh_token, scope |-> effective_scopes]]

\* token_type is the run-time type of the argument
revoke_token(st, token_type, token) ==
    IF token_type = "AccessToken"
    THEN [st |-> delete_tokens_for_access_token(st, token), result |-> None]
    ELSE IF token_type = "RefreshToken"
    THEN [st |-> delete_tokens_for_refresh_token(st, token), result |-> None]
    ELSE [st |-> st, result |-> None]

---------------------------------------------------------------------------
(* The state machine                                                       *)
(* The value a call returns is not part of the state: the properties below *)
(* speak of it through the operator that computes it.  The three history   *)
(* variables record the calls that generated a value.                      *)

Store == [data |-> data, file |-> file]

\* no scenario is being run
NoFlow == [pc |-> "off"]

\* no _save is in progress
NoSave == [pc |-> "idle"]

\* no thread is inside the store
NoThreads == [lock |-> "free"]

\* the provider-level specifications do not look inside _save, at requests
\* or at threads
ExtIdle ==
    /\ saving = NoSave
    /\ proc = "up"
    /\ requests = <<>>
    /\ responses = {}
    /\ threads = NoThreads

Init ==
    /\ data = EmptyData
    /\ file = NoFile
    /\ now = 0
    /\ ticks = 0
    /\ nextId = 1
    /\ inflight = {}
    /\ authorized = {}
    /\ minted = {}
    /\ issued = {}
    /\ flow = NoFlow
    /\ ExtIdle

\* the clock advances; nothing else changes (no background expiry sweep)
Tick ==
    /\ ticks < MaxTicks
    /\ \E d \in TickSteps : now' = now + d
    /\ ticks' = ticks + 1
    /\ UNCHANGED <<data, file, nextId, inflight, authorized, minted, issued, flow, ext>>

RegisterClient ==
    /\ Cardinality(Registered) < MaxClients
    /\ LET id == Cardinality(Registered) + 1
           r == register_client(Store, "app", id, id, now)
       IN  /\ data' = r.st.data
           /\ file' = r.st.file
    /\ UNCHANGED <<now, ticks, nextId, inflight, authorized, minted, issued, flow, ext>>

GetClient ==
    /\ \E id \in 1 .. MaxClients :
          LET r == provider_get_client(Store, id)
          IN  /\ data' = r.st.data
              /\ file' = r.st.file
    /\ UNCHANGED <<now, ticks, nextId, inflight, authorized, minted, issued, flow, ext>>

Authorize ==
    /\ Cardinality(authorized) < MaxFlows
    /\ \E c \in Registered, params \in AuthorizationParams :
          LET r == authorize(Store, c, params, nextId, now)
          IN  /\ data' = r.st.data
              /\ file' = r.st.file
              /\ authorized' = authorized \cup
                    {[state |-> nextId, client_id |-> c, params |-> params, at |-> now]}
    /\ nextId' = nextId + 1
    /\ UNCHANGED <<now, ticks, inflight, minted, issued, flow, ext>>

\* the callback route calls exchange_notion_code; the call either raises at
\* the lookup or is suspended at the upstream POST
ExchangeNotionCodeBegin ==
    /\ \E code \in NotionCodes, state \in PresentableStates :
          LET r == exchange_notion_code_lookup(Store, code, state, now)
              call == [code |-> code, state |-> state, pending |-> r.pending]
          IN  /\ data' = r.st.data
              /\ file' = r.st.file
              \* inflight is a set: two suspended calls differ in state or code
              /\ IF r.raised # ""
                 THEN inflight' = inflight
                 ELSE /\ call \notin inflight
                      /\ Cardinality(inflight) < MaxInflight
                      /\ inflight' = inflight \cup {call}
    /\ UNCHANGED <<now, ticks, nextId, authorized, minted, issued, flow, ext>>

\* the upstream POST of a suspended call completes and the call runs to its end
ExchangeNotionCodeResume ==
    /\ \E call \in inflight, resp \in UpstreamResponses :
          LET r == exchange_notion_code_resume(Store, call.state, call.pending,
                                               resp, nextId, now)
          IN  /\ r.raised = "" => Cardinality(minted) < MaxCodes
              /\ data' = r.st.data
              /\ file' = r.st.file
              /\ inflight' = inflight \ {call}
              /\ nextId' = IF r.raised = "" THEN nextId + 1 ELSE nextId
              /\ minted' = IF r.raised = ""
                           THEN minted \cup {[code |-> nextId, state |-> call.state,
                                              notion_token |-> resp.access_token,
                                              at |-> now]}
                           ELSE minted
    /\ UNCHANGED <<now, ticks, authorized, issued, flow, ext>>

LoadAuthorizationCode ==
    /\ \E c \in Registered, code \in PresentableCodes :
          LET r == load_authorization_code(Store, c, code, now)
          IN  /\ data' = r.st.data
              /\ file' = r.st.file
    /\ UNCHANGED <<now, ticks, nextId, inflight, authorized, minted, issued, flow, ext>>

\* what an exchange that returned an OAuthToken leaves in the history:
\* d is the record the presented code or refresh token resolved to
Issuance(grant, presented, client_id, d, result, t) ==
    [grant |-> grant, presented |-> presented, client_id |-> client_id,
     owner |-> d.client_id, notion_token |-> d.notion_token,
     old_scopes |-> OrEmpty(d.scopes),
     access_token |-> result.access_token,
     refresh_token |-> result.refresh_token, at |-> t]

ExchangeAuthorizationCode ==
    /\ \E c \in Registered, code \in PresentableCodes :
          LET r == exchange_authorization_code(Store, c, code, nextId, nextId + 1, now)
          IN  /\ r.raised = "" => Cardinality(issued) < MaxPairs
              /\ data' = r.st.data
              /\ file' = r.st.file
              /\ nextId' = IF r.raised = "" THEN nextId + 2 ELSE nextId
              /\ issued' = IF r.raised = ""
                           THEN issued \cup {Issuance("authorization_code", code, c,
                                                 data.auth_codes[code], r.result, now)}
                           ELSE issued
    /\ UNCHANGED <<now, ticks, inflight, authorized, minted, flow, ext>>

LoadAccessToken ==
    /\ \E token \in PresentableTokens :
          LET r == load_access_token(Store, token, now)
          IN  /\ data' = r.st.data
              /\ file' = r.st.file
    /\ UNCHANGED <<now, ticks, nextId, inflight, authorized, minted, issued, flow, ext>>

LoadRefreshToken ==
    /\ \E c \in Registered, token \in PresentableTokens :
          LET r == load_refresh_token(Store, c, token)
          IN  /\ data' = r.st.data
              /\ file' = r.st.file
    /\ UNCHANGED <<now, ticks, nextId, inflight, authorized, minted, issued, flow, ext>>

ExchangeRefreshToken ==
    /\ \E c \in Registered, token \in PresentableTokens, scopes \in RequestedScopes :
          LET r == exchange_refresh_token(Store, c, token, scopes, nextId, nextId + 1, now)
          IN  /\ r.raised = "" => Cardinality(issued) < MaxPairs
              /\ data' = r.st.data
              /\ file' = r.st.file
              /\ nextId' = IF r.raised = "" THEN nextId + 2 ELSE nextId
              /\ issued' = IF r.raised = ""
                           THEN issued \cup {Issuance("refresh_token", token, c,
                                                 data.refresh_tokens[token], r.result, now)}
                           ELSE issued
    /\ UNCHANGED <<now, ticks, inflight, authorized, minted, flow, ext>>

RevokeToken ==
    /\ \E token_type \in {"AccessToken", "RefreshToken"}, token \in PresentableTokens :
          LET r == revoke_token(Store, token_type, token)
          IN  /\ data' = r.st.data
              /\ file' = r.st.file
    /\ UNCHANGED <<now, ticks, nextId, inflight, authorized, minted, issued, flow, ext>>

Next ==
    \/ Tick
    \/ RegisterClient
    \/ GetClient
    \/ Authorize
    \/ ExchangeNotionCodeBegin
    \/ ExchangeNotionCodeResume
    \/ LoadAuthorizationCode
    \/ ExchangeAuthorizationCode
    \/ LoadAccessToken
    \/ LoadRefreshToken
    \/ ExchangeRefreshToken
    \/ RevokeToken

Spec == Init /\ [][Next]_vars

---------------------------------------------------------------------------
(* The end-to-end scenario                                                 *)
(* One caller walks through the whole flow on a store that starts empty:   *)
(* register_client, authorize, the upstream callback with the generated    *)
(* state and a code the upstream accepts, exchange_authorization_code with *)
(* the minted code, load_access_token, exchange_refresh_token, and then    *)
(* load_access_token on the old and on the new access token.  Each step    *)
(* feeds the next with the value the previous one returned.  flow.failed   *)
(* names the first step that did not succeed; flow.late is set when a step *)
(* is made after the lifetime of the record it needs has run out.          *)

\* the upstream answers of a code the upstream accepts
AcceptingResponses ==
    {resp \in UpstreamResponses : IsSuccess(resp) /\ resp.decode_error = "" /\ resp.access_token # NoneStr}

FlowStart ==
    [pc |-> "register_client", failed |-> "", late |-> FALSE, since |-> 0,
     client_id |-> 0, state |-> 0, code |-> 0,
     access_token |-> 0, refresh_token |-> 0, new_access_token |-> 0]

InitFlow ==
    /\ data = EmptyData
    /\ file = NoFile
    /\ now = 0
    /\ ticks = 0
    /\ nextId = 1
    /\ inflight = {}
    /\ authorized = {}
    /\ minted = {}
    /\ issued = {}
    /\ flow = FlowStart
    /\ ExtIdle

\* the step at pc is done: go on to the step next, or stop at the failure
FlowAfter(step, ok, lifetime, next) ==
    [flow EXCEPT !.pc = IF ok THEN next ELSE "failed",
                 !.failed = IF ok THEN "" ELSE step,
                 !.late = @ \/ now > flow.since + lifetime,
                 !.since = now]

FlowTick ==
    /\ flow.pc \notin {"done", "failed"}
    /\ ticks < MaxTicks
    /\ \E d \in TickSteps : now' = now + d
    /\ ticks' = ticks + 1
    /\ UNCHANGED <<data, file, nextId, inflight, authorized, minted, issued, flow, ext>>

FlowRegisterClient ==
    /\ flow.pc = "register_client"
    /\ LET id == Cardinality(Registered) + 1
           r == register_client(Store, "app", id, id, now)
           ok == provider_get_client(r.st, id).result # None
       IN  /\ data' = r.st.data
           /\ file' = r.st.file
           /\ flow' = [FlowAfter("register_client", ok, 0, "authorize") EXCEPT
                          !.client_id = id, !.late = FALSE]
    /\ UNCHANGED <<now, ticks, nextId, inflight, authorized, minted, issued, ext>>

FlowAuthorize ==
    /\ flow.pc = "authorize"
    /\ \E params \in AuthorizationParams :
          LET r == authorize(Store, flow.client_id, params, nextId, now)
              ok == r.result.state = nextId /\ r.result.client_id = NOTION_CLIENT_ID
          IN  /\ data' = r.st.data
              /\ file' = r.st.file
              /\ authorized' = authorized \cup
                    {[state |-> nextId, client_id |-> flow.client_id,
                      params |-> params, at |-> now]}
              /\ flow' = [FlowAfter("authorize", ok, 0, "callback") EXCEPT
                             !.state = r.result.state, !.late = FALSE]
    /\ nextId' = nextId + 1
    /\ UNCHANGED <<now, ticks, inflight, minted, issued, ext>>

\* the callback arrives with the state of the authorize URL
FlowCallback ==
    /\ flow.pc = "callback"
    /\ \E code \in NotionCodes :
          LET r == exchange_notion_code_lookup(Store, code, flow.state, now)
          IN  /\ data' = r.st.data
              /\ file' = r.st.file
              /\ inflight' = IF r.raised = ""
                             THEN {[code |-> code, state |-> flow.state, pending |-> r.pending]}
                             ELSE {}
              /\ flow' = [FlowAfter("exchange_notion_code", r.raised = "",
                                    PENDING_AUTH_LIFETIME, "upstream") EXCEPT !.since = flow.since]
    /\ UNCHANGED <<now, ticks, nextId, authorized, minted, issued, ext>>

\* the upstream accepts the code
FlowUpstream ==
    /\ flow.pc = "upstream"
    /\ \E call \in inflight, resp \in AcceptingResponses :
          LET r == exchange_notion_code_resume(Store, call.state, call.pending,
                                               resp, nextId, now)
              ok == r.raised = "" /\ r.result.params[1][1] = "code"
          IN  /\ data' = r.st.data
              /\ file' = r.st.file
              /\ inflight' = inflight \ {call}
              /\ nextId' = IF r.raised = "" THEN nextId + 1 ELSE nextId
              /\ minted' = IF r.raised = ""
                           THEN minted \cup {[code |-> nextId, state |-> call.state,
                                              notion_token |-> resp.access_token,
                                              at |-> now]}
                           ELSE minted
              /\ flow' = [FlowAfter("exchange_notion_code", ok, 0,
                                    "exchange_authorization_code") EXCEPT
                             !.code = IF ok THEN r.result.params[1][2] ELSE 0,
                             !.late = flow.late]
    /\ UNCHANGED <<now, ticks, authorized, issued, ext>>

FlowExchangeAuthorizationCode ==
    /\ flow.pc = "exchange_authorization_code"
    /\ LET r == exchange_authorization_code(Store, flow.client_id, flow.code,
                                            nextId, nextId + 1, now)
           ok == r.raised = ""
       IN  /\ data' = r.st.data
           /\ file' = r.st.file
           /\ nextId' = IF ok THEN nextId + 2 ELSE nextId
           /\ issued' = IF ok
                        THEN issued \cup {Issuance("authorization_code", flow.code,
                                 flow.client_id, data.auth_codes[flow.code], r.result, now)}
                        ELSE issued
           /\ flow' = [FlowAfter("exchange_authorization_code", ok,
                                 AUTH_CODE_LIFETIME, "load_access_token") EXCEPT
                          !.access_token = IF ok THEN r.result.access_token ELSE 0,
                          !.refresh_token = IF ok THEN r.result.refresh_token ELSE 0]
    /\ UNCHANGED <<now, ticks, inflight, authorized, minted, ext>>

FlowLoadAccessToken ==
    /\ flow.pc = "load_access_token"
    /\ LET r == load_access_token(Store, flow.access_token, now)
       IN  /\ data' = r.st.data
           /\ file' = r.st.file
           /\ flow' = [FlowAfter("load_access_token", r.result # None,
                                 ACCESS_TOKEN_LIFETIME, "exchange_refresh_token") EXCEPT
                          !.since = flow.since]
    /\ UNCHANGED <<now, ticks, nextId, inflight, authorized, minted, issued, ext>>

FlowExchangeRefreshToken ==
    /\ flow.pc = "exchange_refresh_token"
    /\ \E scopes \in RequestedScopes :
          LET r == exchange_refresh_token(Store, flow.client_id, flow.refresh_token,
                                          scopes, nextId, nextId + 1, now)
              ok == r.raised = ""
          IN  /\ data' = r.st.data
              /\ file' = r.st.file
              /\ nextId' = IF ok THEN nextId + 2 ELSE nextId
              /\ issued' = IF ok
                           THEN issued \cup {Issuance("refresh_token", flow.refresh_token,
                                    flow.client_id, data.refresh_tokens[flow.refresh_token],
                                    r.result, now)}
                           ELSE issued
              /\ flow' = [FlowAfter("exchange_refresh_token", ok, 0, "load_old") EXCEPT
                             !.new_access_token = IF ok THEN r.result.access_token ELSE 0,
                             !.late = flow.late]
    /\ UNCHANGED <<now, ticks, inflight, authorized, minted, ext>>

\* the old access token must be refused
FlowLoadOld ==
    /\ flow.pc = "load_old"
    /\ LET r == load_access_token(Store, flow.access_token, now)
       IN  /\ data' = r.st.data
           /\ file' = r.st.file
           /\ flow' = [FlowAfter("load_access_token(old)", r.result = None, 0, "load_new")
                          EXCEPT !.since = flow.since, !.late = flow.late]
    /\ UNCHANGED <<now, ticks, nextId, inflight, authorized, minted, issued, ext>>

\* the new access token must be accepted
FlowLoadNew ==
    /\ flow.pc = "load_new"
    /\ LET r == load_access_token(Store, flow.new_access_token, now)
       IN  /\ data' = r.st.data
           /\ file' = r.st.file
           /\ flow' = FlowAfter("load_access_token(new)", r.result # None,
                                ACCESS_TOKEN_LIFETIME, "done")
    /\ UNCHANGED <<now, ticks, nextId, inflight, authorized, minted, issued, ext>>

NextFlow ==
    \/ FlowTick
    \/ FlowRegisterClient
    \/ FlowAuthorize
    \/ FlowCallback
    \/ FlowUpstream
    \/ FlowExchangeAuthorizationCode
    \/ FlowLoadAccessToken
    \/ FlowExchangeRefreshToken
    \/ FlowLoadOld
    \/ FlowLoadNew

SpecFlow == InitFlow /\ [][NextFlow]_vars

---------------------------------------------------------------------------
(* Persistence, step by step                                               *)
(* A store operation changes the collections in memory and then runs       *)
(* _save.  Here _save is followed system call by system call: mkdir,       *)
(* mkstemp, os.write, os.fsync, os.close, os.replace, and on a failure     *)
(* inside the try block os.close, os.unlink and the re-raise.  Each system *)
(* call either does its work or raises OSError; os.write may also write    *)
(* only the first bytes of the buffer and return their number, which _save *)
(* does not look at.  The process may crash between any two steps; what is *)
(* in memory is lost, the files stay, and the next start runs _load.       *)

\* records a caller may store (keys: client 1, state 8, code 7, tokens 3..6)
SampleClient ==
    [client_id |-> 1, client_secret |-> 1, client_id_issued_at |-> 0,
     client_secret_expires_at |-> 0, client_name |-> "app"]

SamplePending(t) ==
    [client_id |-> 1, redirect_uri |-> [text |-> "https://claude.ai/cb", has_query |-> FALSE],
     code_challenge |-> "challenge-1", state |-> NoneStr, scopes |-> NoneScopes,
     redirect_uri_provided_explicitly |-> FALSE, resource |-> NoneStr,
     expires_at |-> t + PENDING_AUTH_LIFETIME]

SampleAccess(refresh_token, t) ==
    [notion_token |-> "ntn_alice", client_id |-> 1, scopes |-> <<>>,
     expires_at |-> t + ACCESS_TOKEN_LIFETIME, refresh_token |-> refresh_token,
     resource |-> NoneStr]

SampleRefresh(access_token) ==
    [notion_token |-> "ntn_alice", client_id |-> 1, scopes |-> <<>>,
     access_token |-> access_token, resource |-> NoneStr]

\* the store calls that reach _save, each with the store it leaves in memory
\* and on disk when _save does not fail
StoreCalls(st, t) ==
    {[op |-> "store_pending_auth", st |-> store_pending_auth(st, 8, SamplePending(t))],
     [op |-> "delete_pending_auth", st |-> delete_pending_auth(st, 8)],
     [op |-> "store_access_token", st |-> store_access_token(st, 3, SampleAccess(4, t))],
     [op |-> "store_refresh_token", st |-> store_refresh_token(st, 4, SampleRefresh(3))],
     [op |-> "rotate_tokens",
      st |-> rotate_tokens(st, 3, 4, 5, SampleAccess(6, t), 6, SampleRefresh(5))],
     [op |-> "delete_tokens_for_access_token", st |-> delete_tokens_for_access_token(st, 3)],
     [op |-> "delete_tokens_for_refresh_token", st |-> delete_tokens_for_refresh_token(st, 6)]}
    \cup {[op |-> "get_pending_auth", st |-> get_pending_auth(st, 8, t).st] :
             x \in {y \in {8} : y \in DOMAIN st.data.pending_auth
                                  /\ get_pending_auth(st, y, t).val = None}}
    \cup {[op |-> "get_access_token", st |-> get_access_token(st, k, t).st] :
             k \in {y \in {3, 5} : y \in DOMAIN st.data.access_tokens
                                     /\ get_access_token(st, y, t).val = None}}

\* the file a previous run of the server may have left behind: none, a
\* snapshot written under the same secret, one written under another
\* secret, a torn one, and one whose plaintext is not JSON
PriorSnapshot == [EmptyData EXCEPT !.clients = DictSet(@, 1, SampleClient)]

\* JSON written under the same secret by something else than _save: an empty
\* object, and an object that holds the clients only
OtherShapes == {EmptyDict, [clients |-> DictSet(EmptyDict, 1, SampleClient)]}

PriorFiles ==
    {NoFile,
     Encrypt(SECRET, json_dumps(PriorSnapshot)),
     Encrypt("another-secret", json_dumps(PriorSnapshot)),
     Torn(Encrypt(SECRET, json_dumps(PriorSnapshot))),
     Encrypt(SECRET, NotJson)}
        \cup {Encrypt(SECRET, json_dumps(doc)) : doc \in OtherShapes}

\* the keys of the document that __init__ sets up
Collections == {"clients", "pending_auth", "auth_codes", "access_tokens", "refresh_tokens"}

\* self._data[name] succeeds for each of the five names
HasCollections(doc) == Collections \subseteq DOMAIN doc

\* TokenStore(secret) has been constructed on what the previous run left
InitSave ==
    /\ file \in PriorFiles
    /\ data = _load(file)
    /\ now = 0
    /\ ticks = 0
    /\ nextId = 1
    /\ inflight = {}
    /\ authorized = {}
    /\ minted = {}
    /\ issued = {}
    /\ flow = NoFlow
    /\ saving = [pc |-> "constructed"]
    /\ proc = "up"
    /\ requests = <<>>
    /\ responses = {}
    /\ threads = NoThreads

\* the store call has returned, or an exception has left it: the local
\* variables of _save are gone (a temporary file that was not unlinked stays
\* in the directory, where nothing reads it)
Returned == [pc |-> "returned"]

Raised == [pc |-> "raised"]

\* no store call is running
Resting == saving.pc \in {"constructed", "returned", "raised"}

\* what stays the same in every step of the persistence specification
SaveFrame == UNCHANGED <<nextId, inflight, authorized, minted, issued, flow, requests, responses, threads>>

SaveTick ==
    /\ proc = "up" /\ Resting
    /\ ticks < MaxTicks
    /\ \E d \in TickSteps : now' = now + d
    /\ ticks' = ticks + 1
    /\ UNCHANGED <<data, file, saving, proc>>
    /\ SaveFrame

\* a store call changes the collections in memory and enters _save
SaveEnter ==
    /\ proc = "up" /\ Resting
    /\ HasCollections(data)
    /\ \E call \in StoreCalls(Store, now) :
          /\ data' = call.st.data
          /\ saving' = [pc |-> "mkdir", op |-> call.op, pre |-> file,
                        before |-> data,
                        encrypted |-> call.st.file, tmp |-> NoFile,
                        tmp_fd |-> "none", exc |-> ""]
    /\ UNCHANGED <<file, now, ticks, proc>>
    /\ SaveFrame

\* a store call on a document that lacks the collection it indexes:
\* self._data[name] raises KeyError before anything is changed
SaveKeyError ==
    /\ proc = "up" /\ Resting
    /\ ~HasCollections(data)
    /\ saving' = Raised
    /\ UNCHANGED <<data, file, now, ticks, proc>>
    /\ SaveFrame

\* self._path.parent.mkdir(parents=True, exist_ok=True): outside the try
SaveMkdir ==
    /\ proc = "up" /\ saving.pc = "mkdir"
    /\ \/ saving' = [saving EXCEPT !.pc = "mkstemp"]
       \/ saving' = Raised
    /\ UNCHANGED <<data, file, now, ticks, proc>>
    /\ SaveFrame

\* tempfile.mkstemp(dir=...): a new, empty file, open; outside the try
SaveMkstemp ==
    /\ proc = "up" /\ saving.pc = "mkstemp"
    /\ \/ saving' = [saving EXCEPT !.pc = "write", !.tmp = EmptyFile, !.tmp_fd = "open"]
       \/ saving' = Raised
    /\ UNCHANGED <<data, file, now, ticks, proc>>
    /\ SaveFrame

\* os.write(tmp_fd, encrypted): the whole buffer, or its first bytes only
\* (the returned count is dropped), or OSError
SaveWrite ==
    /\ proc = "up" /\ saving.pc = "write"
    /\ \/ saving' = [saving EXCEPT !.pc = "fsync", !.tmp = saving.encrypted]
       \/ saving' = [saving EXCEPT !.pc = "fsync", !.tmp = Torn(saving.encrypted)]
       \/ \E left \in {EmptyFile, Torn(saving.encrypted)} :
             saving' = [saving EXCEPT !.pc = "except_close", !.tmp = left, !.exc = "OSError"]
    /\ UNCHANGED <<data, file, now, ticks, proc>>
    /\ SaveFrame

\* os.fsync(tmp_fd)
SaveFsync ==
    /\ proc = "up" /\ saving.pc = "fsync"
    /\ \/ saving' = [saving EXCEPT !.pc = "close"]
       \/ saving' = [saving EXCEPT !.pc = "except_close", !.exc = "OSError"]
    /\ UNCHANGED <<data, file, now, ticks, proc>>
    /\ SaveFrame

\* os.close(tmp_fd): the descriptor is released whether or not close reports
\* an error
SaveClose ==
    /\ proc = "up" /\ saving.pc = "close"
    /\ \/ saving' = [saving EXCEPT !.pc = "replace", !.tmp_fd = "closed"]
       \/ saving' = [saving EXCEPT !.pc = "except_close", !.tmp_fd = "closed", !.exc = "OSError"]
    /\ UNCHANGED <<data, file, now, ticks, proc>>
    /\ SaveFrame

\* os.replace(tmp_path, str(self._path)): the temporary file becomes the
\* live file in one step, or nothing changes and OSError is raised
SaveReplace ==
    /\ proc = "up" /\ saving.pc = "replace"
    /\ \/ /\ file' = saving.tmp
          /\ saving' = [saving EXCEPT !.pc = "saved", !.tmp = NoFile]
       \/ /\ file' = file
          /\ saving' = [saving EXCEPT !.pc = "except_close", !.exc = "OSError"]
    /\ UNCHANGED <<data, now, ticks, proc>>
    /\ SaveFrame

\* _save is over; the store call leaves its critical section and returns
SaveReturn ==
    /\ proc = "up" /\ saving.pc = "saved"
    /\ saving' = Returned
    /\ UNCHANGED <<data, file, now, ticks, proc>>
    /\ SaveFrame

\* except: os.close(tmp_fd) -- on a descriptor that is already closed this
\* raises OSError itself and the handler ends there
SaveExceptClose ==
    /\ proc = "up" /\ saving.pc = "except_close"
    /\ IF saving.tmp_fd = "open"
       THEN \/ saving' = [saving EXCEPT !.pc = "except_unlink", !.tmp_fd = "closed"]
            \/ saving' = Raised
       ELSE saving' = Raised
    /\ UNCHANGED <<data, file, now, ticks, proc>>
    /\ SaveFrame

\* except: os.unlink(tmp_path); raise
SaveExceptUnlink ==
    /\ proc = "up" /\ saving.pc = "except_unlink"
    /\ saving' = Raised
    /\ UNCHANGED <<data, file, now, ticks, proc>>
    /\ SaveFrame

\* the process dies: the collections in memory are gone, the files stay
Crash ==
    /\ proc = "up"
    /\ proc' = "down"
    /\ data' = EmptyData
    /\ saving' = IF Resting
                 THEN [pc |-> "crashed", pre |-> file, encrypted |-> file]
                 ELSE [pc |-> "crashed", pre |-> saving.pre, encrypted |-> saving.encrypted]
    /\ UNCHANGED <<file, now, ticks>>
    /\ SaveFrame

\* the server is started again: TokenStore.__init__ runs _load
Restart ==
    /\ proc = "down"
    /\ proc' = "up"
    /\ data' = _load(file)
    /\ saving' = [saving EXCEPT !.pc = "constructed"]
    /\ UNCHANGED <<file, now, ticks>>
    /\ SaveFrame

NextSave ==
    \/ SaveTick
    \/ SaveEnter
    \/ SaveKeyError
    \/ SaveMkdir
    \/ SaveMkstemp
    \/ SaveWrite
    \/ SaveFsync
    \/ SaveClose
    \/ SaveReplace
    \/ SaveReturn
    \/ SaveExceptClose
    \/ SaveExceptUnlink
    \/ Crash
    \/ Restart

SpecSave == InitSave /\ [][NextSave]_vars

---------------------------------------------------------------------------
(* Requests to the MCP endpoint                                            *)
(* A request is served in its own asyncio task, hence in its own copy of   *)
(* the context: a ContextVar set while serving one request is not seen by  *)
(* another.  The request passes the bearer authentication of the SDK,      *)
(* which calls load_access_token when a bearer token is presented, then    *)
(* the access gate, then the handler, which calls patched_get_client.      *)
(* The steps of different requests interleave, and tokens may expire or be *)
(* revoked in between.                                                     *)

MaxRequests == 2

\* scope["method"] of an inbound request; NoneStr when the scope has none
Methods == {"GET", "POST", "DELETE", "get", NoneStr}

\* scope.get("method", "")
ScopeMethod(scope) == IF scope.method = NoneStr THEN "" ELSE scope.method

\* the value of _request_client in a context where it was never set
NoClient == NoneStr

\* mutant: the client is kept in one place shared by all requests
set_client_for_request_shared(reqs, r, api_key) ==
    [x \in DOMAIN reqs |-> [reqs[x] EXCEPT !.client = api_key]]

\* set_client_for_request, run in the context of request r
set_client_for_request(reqs, r, api_key) ==
    [reqs EXCEPT ![r].client = api_key]

\* mutant: a request without a client of its own gets one that another
\* request has set
patched_get_client_retained(reqs, r) ==
    IF reqs[r].client # NoClient
    THEN [raised |-> "", api_key |-> reqs[r].client]
    ELSE IF \E x \in DOMAIN reqs : reqs[x].client # NoClient
    THEN [raised |-> "", api_key |-> reqs[CHOOSE x \in DOMAIN reqs : reqs[x].client # NoClient].client]
    ELSE [raised |-> "RuntimeError", api_key |-> NoneStr]

\* patched_get_client, run in the context of request r: the api key of the
\* client, or RuntimeError
patched_get_client(reqs, r) ==
    IF reqs[r].client = NoClient
    THEN [raised |-> "RuntimeError", api_key |-> NoneStr]
    ELSE [raised |-> "", api_key |-> reqs[r].client]

\* RequireAuthMiddleware of the SDK, which no scope is required of: the
\* request goes on only with an authenticated user
RequireAuthMiddleware(scope) ==
    IF scope.user = None THEN "401" ELSE "app"

\* mutant: POST passes the gate like GET
MethodAwareAuthMiddleware_post_too(scope) ==
    IF ScopeMethod(scope) \in {"GET", "POST"} THEN "app" ELSE RequireAuthMiddleware(scope)

\* MethodAwareAuthMiddleware.__call__: where the request goes
MethodAwareAuthMiddleware(scope) ==
    IF ScopeMethod(scope) = "GET" THEN "app" ELSE RequireAuthMiddleware(scope)

\* no bearer token in the request
NoBearer == -1

\* a store in which two clients went through the flow, each for another
\* upstream account: access token 3 / refresh token 4 for client 1 and
\* ntn_alice, access token 5 / refresh token 6 for client 2 and ntn_bob
StoreOfTwo ==
    LET code(c, notion_token) ==
            [notion_token |-> notion_token, client_id |-> c,
             code_challenge |-> "challenge-1",
             redirect_uri |-> [text |-> "https://claude.ai/cb", has_query |-> FALSE],
             redirect_uri_provided_explicitly |-> FALSE, scopes |-> <<>>,
             resource |-> NoneStr, expires_at |-> AUTH_CODE_LIFETIME]
        s0 == [data |-> EmptyData, file |-> NoFile]
        s1 == register_client(s0, "app", 1, 1, 0).st
        s2 == register_client(s1, "app", 2, 2, 0).st
        s3 == store_auth_code(s2, 1, code(1, "ntn_alice"))
        s4 == store_auth_code(s3, 2, code(2, "ntn_bob"))
        s5 == exchange_authorization_code(s4, 1, 1, 3, 4, 0).st
    IN  exchange_authorization_code(s5, 2, 2, 5, 6, 0).st

IssuedOfTwo ==
    {[grant |-> "authorization_code", presented |-> 1, client_id |-> 1, owner |-> 1,
      notion_token |-> "ntn_alice", old_scopes |-> <<>>, access_token |-> 3,
      refresh_token |-> 4, at |-> 0],
     [grant |-> "authorization_code", presented |-> 2, client_id |-> 2, owner |-> 2,
      notion_token |-> "ntn_bob", old_scopes |-> <<>>, access_token |-> 5,
      refresh_token |-> 6, at |-> 0]}

InitRequests ==
    /\ data = StoreOfTwo.data
    /\ file = StoreOfTwo.file
    /\ now = 0
    /\ ticks = 0
    /\ nextId = 7
    /\ inflight = {}
    /\ authorized = {}
    /\ minted = {}
    /\ issued = IssuedOfTwo
    /\ flow = NoFlow
    /\ saving = NoSave
    /\ proc = "up"
    /\ requests = <<>>
    /\ responses = {}
    /\ threads = NoThreads

\* what stays the same in every step of the request specification
RequestFrame == UNCHANGED <<nextId, inflight, authorized, minted, issued, flow, saving, proc, responses, threads>>

\* the upstream token bound to an access token when it was issued
BoundTo(token) == (CHOOSE e \in issued : e.access_token = token).notion_token

ReqTick ==
    /\ ticks < MaxTicks
    /\ \E d \in TickSteps : now' = now + d
    /\ ticks' = ticks + 1
    /\ UNCHANGED <<data, file, requests>>
    /\ RequestFrame

\* a request arrives and gets a task with a fresh copy of the context
ReqArrive ==
    /\ Len(requests) < MaxRequests
    /\ \E method \in Methods, bearer \in {e.access_token : e \in issued} \cup {Unknown, NoBearer} :
          requests' = Append(requests,
              [pc |-> "authenticate", method |-> method, bearer |-> bearer,
               user |-> None, client |-> NoClient, seen |-> NoneStr])
    /\ UNCHANGED <<data, file, now, ticks>>
    /\ RequestFrame

\* bearer authentication: load_access_token on the presented token, which
\* on success sets the client of this request (provider.py line 273)
ReqAuthenticate ==
    /\ \E r \in DOMAIN requests :
          /\ requests[r].pc = "authenticate"
          /\ IF requests[r].bearer = NoBearer
             THEN /\ requests' = [requests EXCEPT ![r].pc = "gate"]
                  /\ UNCHANGED <<data, file>>
             ELSE LET l == load_access_token(Store, requests[r].bearer, now)
                      set == IF l.result = None THEN requests
                             ELSE set_client_for_request(requests, r,
                                      data.access_tokens[requests[r].bearer].notion_token)
                  IN  /\ data' = l.st.data
                      /\ file' = l.st.file
                      /\ requests' = [set EXCEPT ![r].pc = "gate", ![r].user = l.result]
    /\ UNCHANGED <<now, ticks>>
    /\ RequestFrame

\* the access gate forwards the request to the handler or answers 401
ReqGate ==
    /\ \E r \in DOMAIN requests :
          /\ requests[r].pc = "gate"
          /\ requests' = [requests EXCEPT ![r].pc =
                             IF MethodAwareAuthMiddleware(requests[r]) = "app"
                             THEN "handler" ELSE "rejected"]
    /\ UNCHANGED <<data, file, now, ticks>>
    /\ RequestFrame

\* the handler asks for the upstream client of its request
ReqHandler ==
    /\ \E r \in DOMAIN requests :
          /\ requests[r].pc = "handler"
          /\ LET g == patched_get_client(requests, r)
             IN  requests' = [requests EXCEPT ![r].pc = "done",
                                 ![r].seen = IF g.raised = "" THEN g.api_key ELSE g.raised]
    /\ UNCHANGED <<data, file, now, ticks>>
    /\ RequestFrame

\* meanwhile a token is revoked
ReqRevoke ==
    /\ \E token_type \in {"AccessToken", "RefreshToken"}, token \in PresentableTokens \ {Unknown} :
          LET r == revoke_token(Store, token_type, token)
          IN  /\ r.st.data # data
              /\ data' = r.st.data
              /\ file' = r.st.file
    /\ UNCHANGED <<now, ticks, requests>>
    /\ RequestFrame

NextRequests ==
    \/ ReqTick
    \/ ReqArrive
    \/ ReqAuthenticate
    \/ ReqGate
    \/ ReqHandler
    \/ ReqRevoke

SpecRequests == InitRequests /\ [][NextRequests]_vars

---------------------------------------------------------------------------
(* The callback route                                                      *)
(* notion_oauth_callback reads code, state and error from the query        *)
(* string, answers at once when it has an error or lacks a parameter, and  *)
(* otherwise awaits exchange_notion_code and turns its result or its       *)
(* exception into the HTTP response.                                       *)

MaxResponses == 2

MaxCallbackTicks == 2

\* a state parameter that is absent from the query string, and one that is
\* present and empty (states are numbers in this model)
NoState == -1

EmptyState == -2

\* `not state`
StateTruthy(state) == state \notin {NoState, EmptyState}

\* request.query_params of a callback request: NoneStr for an absent
\* parameter, "" for one given without a value
Queries ==
    [code : {NoneStr, "notion-code-1"},
     state : PresentableStates \cup {NoState, EmptyState},
     error : {NoneStr, "", "access_denied"}]

\* JSONResponse(body, status_code) and RedirectResponse(url, 302)
JSONResponse(error, detail, status_code) ==
    [status |-> status_code, error |-> error, detail |-> detail]

RedirectResponse(url) == [status |-> 302, location |-> url]

\* json.JSONDecodeError is a subclass of ValueError
IsValueError(raised) == raised \in {"ValueError", "JSONDecodeError"}

\* mutant: the error parameter is not looked at
notion_oauth_callback_begin_no_error_check(st, query, t) ==
    IF ~Truthy(query.code) \/ ~StateTruthy(query.state)
    THEN [st |-> st, invoked |-> FALSE, suspended |-> FALSE, pending |-> None,
          response |-> JSONResponse("missing_params", "code and state are required", 400)]
    ELSE LET r == exchange_notion_code_lookup(st, query.code, query.state, t) IN
         IF r.raised # ""
         THEN [st |-> r.st, invoked |-> TRUE, suspended |-> FALSE, pending |-> None,
               response |-> JSONResponse("callback_failed", r.message, 400)]
         ELSE [st |-> r.st, invoked |-> TRUE, suspended |-> TRUE, pending |-> r.pending,
               response |-> None]

\* notion_oauth_callback up to the await inside exchange_notion_code:
\* whether exchange_notion_code was invoked, whether it is suspended at the
\* upstream POST, and the response when there is one already
notion_oauth_callback_begin(st, query, t) ==
    IF Truthy(query.error)
    THEN [st |-> st, invoked |-> FALSE, suspended |-> FALSE, pending |-> None,
          response |-> JSONResponse("notion_oauth_error", query.error, 400)]
    ELSE IF ~Truthy(query.code) \/ ~StateTruthy(query.state)
    THEN [st |-> st, invoked |-> FALSE, suspended |-> FALSE, pending |-> None,
          response |-> JSONResponse("missing_params", "code and state are required", 400)]
    ELSE LET r == exchange_notion_code_lookup(st, query.code, query.state, t) IN
         IF r.raised # ""
         THEN [st |-> r.st, invoked |-> TRUE, suspended |-> FALSE, pending |-> None,
               response |-> JSONResponse("callback_failed", r.message, 400)]
         ELSE [st |-> r.st, invoked |-> TRUE, suspended |-> TRUE, pending |-> r.pending,
               response |-> None]

\* notion_oauth_callback from the upstream response on
notion_oauth_callback_resume(st, call, resp, our_code, t) ==
    LET r == exchange_notion_code_resume(st, call.state, call.pending, resp, our_code, t) IN
    IF r.raised = ""
    THEN [st |-> r.st, raised |-> "", response |-> RedirectResponse(r.result)]
    ELSE IF IsValueError(r.raised)
    THEN [st |-> r.st, raised |-> r.raised,
          response |-> JSONResponse("callback_failed", r.message, 400)]
    ELSE [st |-> r.st, raised |-> r.raised,
          response |-> JSONResponse("internal_error", "An internal error occurred", 500)]

\* the upstream answers with which exchange_notion_code does not succeed
FailingResponses == UpstreamResponses \ AcceptingResponses

\* one client is registered
InitCallback ==
    /\ data = register_client([data |-> EmptyData, file |-> NoFile], "app", 1, 1, 0).st.data
    /\ file = register_client([data |-> EmptyData, file |-> NoFile], "app", 1, 1, 0).st.file
    /\ now = 0
    /\ ticks = 0
    /\ nextId = 1
    /\ inflight = {}
    /\ authorized = {}
    /\ minted = {}
    /\ issued = {}
    /\ flow = NoFlow
    /\ saving = NoSave
    /\ proc = "up"
    /\ requests = <<>>
    /\ responses = {}
    /\ threads = NoThreads

\* the AuthorizationParams of the callback specification: also a state and
\* a resource parameter given without a value, an empty list of scopes, and
\* a state with reserved characters
CallbackParams ==
    AuthorizationParams \cup
    {[redirect_uri |-> [text |-> "https://claude.ai/cb", has_query |-> FALSE],
      code_challenge |-> "challenge-3", state |-> "", scopes |-> <<>>,
      redirect_uri_provided_explicitly |-> FALSE, resource |-> ""],
     [redirect_uri |-> [text |-> "https://app.example/cb?x=1", has_query |-> TRUE],
      code_challenge |-> "challenge-4", state |-> "a b&c=d", scopes |-> <<"read">>,
      redirect_uri_provided_explicitly |-> TRUE, resource |-> "https://proxy.example/mcp"]}

\* what stays the same in every step of the callback specification
CallbackFrame == UNCHANGED <<flow, saving, proc, requests, threads>>

\* the clock advances by a second or by a lifetime; while a request is
\* suspended at the upstream POST by a second only (the HTTP client gives up
\* after seconds)
CallbackTick ==
    /\ ticks < MaxCallbackTicks
    /\ \E d \in IF inflight = {} THEN {1, AUTH_CODE_LIFETIME, PENDING_AUTH_LIFETIME} ELSE {1} :
          now' = now + d
    /\ ticks' = ticks + 1
    /\ UNCHANGED <<data, file, nextId, inflight, authorized, minted, issued, responses>>
    /\ CallbackFrame

CallbackAuthorize ==
    /\ Cardinality(authorized) < MaxFlows
    /\ \E c \in Registered, params \in CallbackParams :
          LET r == authorize(Store, c, params, nextId, now)
          IN  /\ data' = r.st.data
              /\ file' = r.st.file
              /\ authorized' = authorized \cup
                    {[state |-> nextId, client_id |-> c, params |-> params, at |-> now]}
    /\ nextId' = nextId + 1
    /\ UNCHANGED <<now, ticks, inflight, minted, issued, responses>>
    /\ CallbackFrame

\* a request arrives at /oauth/callback
CallbackRequest ==
    /\ \E query \in Queries :
          LET b == notion_oauth_callback_begin(Store, query, now)
              call == [code |-> query.code, state |-> query.state, pending |-> b.pending,
                       query |-> query]
          IN  /\ data' = b.st.data
              /\ file' = b.st.file
              /\ IF b.suspended
                 THEN /\ call \notin inflight
                      /\ Cardinality(inflight) < MaxInflight
                      /\ inflight' = inflight \cup {call}
                      /\ responses' = responses
                 ELSE /\ Cardinality(responses) < MaxResponses
                      /\ inflight' = inflight
                      /\ responses' = responses \cup
                            {[query |-> query, upstream |-> None, response |-> b.response]}
    /\ UNCHANGED <<now, ticks, nextId, authorized, minted, issued>>
    /\ CallbackFrame

\* the upstream POST of a suspended request completes
CallbackUpstream ==
    /\ Cardinality(responses) < MaxResponses
    /\ \E call \in inflight, resp \in UpstreamResponses :
          LET r == notion_oauth_callback_resume(Store, call, resp, nextId, now)
          IN  /\ r.raised = "" => Cardinality(minted) < MaxCodes
              /\ data' = r.st.data
              /\ file' = r.st.file
              /\ inflight' = inflight \ {call}
              /\ nextId' = IF r.raised = "" THEN nextId + 1 ELSE nextId
              /\ minted' = IF r.raised = ""
                           THEN minted \cup {[code |-> nextId, state |-> call.state,
                                              notion_token |-> resp.access_token,
                                              at |-> now]}
                           ELSE minted
              /\ responses' = responses \cup
                    {[query |-> call.query, upstream |-> resp, response |-> r.response]}
    /\ UNCHANGED <<now, ticks, authorized, issued>>
    /\ CallbackFrame

\* the downstream client redeems a proxy code at the token endpoint
CallbackExchangeAuthorizationCode ==
    /\ \E c \in Registered, code \in PresentableCodes :
          LET r == exchange_authorization_code(Store, c, code, nextId, nextId + 1, now)
          IN  /\ r.raised = "" => Cardinality(issued) < MaxPairs
              /\ r.st # Store
              /\ data' = r.st.data
              /\ file' = r.st.file
              /\ nextId' = IF r.raised = "" THEN nextId + 2 ELSE nextId
              /\ issued' = IF r.raised = ""
                           THEN issued \cup {Issuance("authorization_code", code, c,
                                                 data.auth_codes[code], r.result, now)}
                           ELSE issued
    /\ UNCHANGED <<now, ticks, inflight, authorized, minted, responses>>
    /\ CallbackFrame

NextCallback ==
    \/ CallbackTick
    \/ CallbackAuthorize
    \/ CallbackRequest
    \/ CallbackUpstream
    \/ CallbackExchangeAuthorizationCode

SpecCallback == InitCallback /\ [][NextCallback]_vars

---------------------------------------------------------------------------
(* The lock of the store                                                   *)
(* Every store operation runs inside `with self._lock`.  Here threads run  *)
(* inside the store at the same time: one runs rotate_tokens statement by  *)
(* statement, the others run get_access_token and get_refresh_token.  A    *)
(* thread enters its critical section only when the lock is free.          *)

MaxObservers == 2

MaxObservations == 2

\* the rotation that is run: the pair 3/4 of client 1 is replaced by 7/8
RotationCall ==
    LET d == StoreOfTwo.data.refresh_tokens[4] IN
    [old_access_token |-> d.access_token, old_refresh_token |-> 4,
     new_access_token |-> 7,
     new_access_data |-> [notion_token |-> d.notion_token, client_id |-> 1,
                          scopes |-> <<>>, expires_at |-> ACCESS_TOKEN_LIFETIME,
                          refresh_token |-> 8, resource |-> d.resource],
     new_refresh_token |-> 8,
     new_refresh_data |-> [notion_token |-> d.notion_token, client_id |-> 1,
                           scopes |-> <<>>, access_token |-> 7, resource |-> d.resource]]

\* how many of the four effects of the rotation are applied to the
\* collections d
RotationEffects(d) ==
    LET c == RotationCall IN
      (IF c.old_access_token \notin DOMAIN d.access_tokens THEN 1 ELSE 0)
    + (IF c.old_refresh_token \notin DOMAIN d.refresh_tokens THEN 1 ELSE 0)
    + (IF c.new_access_token \in DOMAIN d.access_tokens THEN 1 ELSE 0)
    + (IF c.new_refresh_token \in DOMAIN d.refresh_tokens THEN 1 ELSE 0)

\* mutant: a thread enters without waiting for the lock
Acquirable_always(lock) == TRUE

\* `with self._lock`: a thread enters when no thread is inside
Acquirable(lock) == lock = "free"

InitLock ==
    /\ data = StoreOfTwo.data
    /\ file = StoreOfTwo.file
    /\ now = 0
    /\ ticks = 0
    /\ nextId = 7
    /\ inflight = {}
    /\ authorized = {}
    /\ minted = {}
    /\ issued = IssuedOfTwo
    /\ flow = NoFlow
    /\ saving = NoSave
    /\ proc = "up"
    /\ requests = <<>>
    /\ responses = {}
    /\ threads = [lock |-> "free", rotator |-> "idle",
                  observers |-> [o \in 1 .. MaxObservers |->
                                    [pc |-> "idle", kind |-> "", key |-> 0, seen |-> <<>>]]]

\* what stays the same in every step of the locking specification
LockFrame == UNCHANGED <<now, ticks, nextId, inflight, authorized, minted, issued, flow, saving, proc, requests, responses>>

\* rotate_tokens: with self._lock
RotateAcquire ==
    /\ threads.rotator = "idle"
    /\ Acquirable(threads.lock)
    /\ threads' = [threads EXCEPT !.lock = "rotator", !.rotator = "pop_access"]
    /\ UNCHANGED <<data, file>>
    /\ LockFrame

\* if old_access_token: self._data["access_tokens"].pop(old_access_token, None)
RotatePopAccess ==
    /\ threads.rotator = "pop_access"
    /\ data' = IF RotationCall.old_access_token # 0
               THEN [data EXCEPT !.access_tokens = DictPop(@, RotationCall.old_access_token)]
               ELSE data
    /\ threads' = [threads EXCEPT !.rotator = "pop_refresh"]
    /\ UNCHANGED file
    /\ LockFrame

\* self._data["refresh_tokens"].pop(old_refresh_token, None)
RotatePopRefresh ==
    /\ threads.rotator = "pop_refresh"
    /\ data' = [data EXCEPT !.refresh_tokens = DictPop(@, RotationCall.old_refresh_token)]
    /\ threads' = [threads EXCEPT !.rotator = "set_access"]
    /\ UNCHANGED file
    /\ LockFrame

\* self._data["access_tokens"][new_access_token] = new_access_data
RotateSetAccess ==
    /\ threads.rotator = "set_access"
    /\ data' = [data EXCEPT !.access_tokens =
                   DictSet(@, RotationCall.new_access_token, RotationCall.new_access_data)]
    /\ threads' = [threads EXCEPT !.rotator = "set_refresh"]
    /\ UNCHANGED file
    /\ LockFrame

\* self._data["refresh_tokens"][new_refresh_token] = new_refresh_data
RotateSetRefresh ==
    /\ threads.rotator = "set_refresh"
    /\ data' = [data EXCEPT !.refresh_tokens =
                   DictSet(@, RotationCall.new_refresh_token, RotationCall.new_refresh_data)]
    /\ threads' = [threads EXCEPT !.rotator = "save"]
    /\ UNCHANGED file
    /\ LockFrame

\* self._save(): the snapshot reaches the file, or only its first bytes do,
\* or _save raises and the file stays
RotateSave ==
    /\ threads.rotator = "save"
    /\ \/ file' = _save(Store).file
       \/ file' = Torn(_save(Store).file)
       \/ file' = file
    /\ threads' = [threads EXCEPT !.rotator = "release"]
    /\ UNCHANGED data
    /\ LockFrame

\* the with block is left, normally or by the exception
RotateRelease ==
    /\ threads.rotator = "release"
    /\ threads' = [threads EXCEPT !.lock = "free", !.rotator = "done"]
    /\ UNCHANGED <<data, file>>
    /\ LockFrame

\* get_access_token(key) or get_refresh_token(key): with self._lock
ObserverAcquire ==
    /\ \E o \in 1 .. MaxObservers :
          /\ threads.observers[o].pc = "idle"
          /\ Len(threads.observers[o].seen) < MaxObservations
          /\ Acquirable(threads.lock)
          /\ \E kind \in {"access", "refresh"} :
             \E key \in IF kind = "access"
                        THEN {RotationCall.old_access_token, RotationCall.new_access_token}
                        ELSE {RotationCall.old_refresh_token, RotationCall.new_refresh_token} :
                threads' = [threads EXCEPT !.lock = "observer",
                               !.observers[o].pc = "reading",
                               !.observers[o].kind = kind,
                               !.observers[o].key = key]
    /\ UNCHANGED <<data, file>>
    /\ LockFrame

\* the read inside the critical section (no token is expired at time 0)
ObserverRead ==
    /\ \E o \in 1 .. MaxObservers :
          /\ threads.observers[o].pc = "reading"
          /\ LET me == threads.observers[o]
                 got == IF me.kind = "access"
                        THEN get_access_token(Store, me.key, now).val
                        ELSE get_refresh_token(Store, me.key)
             IN  threads' = [threads EXCEPT !.observers[o].pc = "release",
                                !.observers[o].seen =
                                    Append(@, [key |-> me.key, found |-> got # None,
                                               effects |-> RotationEffects(data)])]
    /\ UNCHANGED <<data, file>>
    /\ LockFrame

ObserverRelease ==
    /\ \E o \in 1 .. MaxObservers :
          /\ threads.observers[o].pc = "release"
          /\ threads' = [threads EXCEPT !.lock = "free", !.observers[o].pc = "idle"]
    /\ UNCHANGED <<data, file>>
    /\ LockFrame

NextLock ==
    \/ RotateAcquire
    \/ RotatePopAccess
    \/ RotatePopRefresh
    \/ RotateSetAccess
    \/ RotateSetRefresh
    \/ RotateSave
    \/ RotateRelease
    \/ ObserverAcquire
    \/ ObserverRead
    \/ ObserverRelease

SpecLock == InitLock /\ [][NextLock]_vars

---------------------------------------------------------------------------
(* Shorthands for the properties                                           *)

AccessTokens == DOMAIN data.access_tokens

RefreshTokens == DOMAIN data.refresh_tokens

AuthCodes == DOMAIN data.auth_codes

CodeGrants == {e \in issued : e.grant = "authorization_code"}

RefreshGrants == {e \in issued : e.grant = "refresh_token"}

\* the OAuth error of a failed exchange
InvalidGrant(r) == r.raised = "TokenError" /\ r.error = "invalid_grant"

\* a call left every token where it was
NoTokenMinted(st) ==
    /\ st.data.access_tokens = data.access_tokens
    /\ st.data.refresh_tokens = data.refresh_tokens

---------------------------------------------------------------------------
(* C1.  A proxy authorization code is exchanged at most once: over every   *)
(* sequence of exchange_authorization_code calls presenting one code, at   *)
(* most one returns a token pair, and once one has, every call presenting  *)
(* that code, by whichever client, fails with invalid_grant and leaves the *)
(* token collections as they were.                                         *)
C1_CodeExchangedOnce ==
    /\ \A e1, e2 \in CodeGrants : e1.presented = e2.presented => e1 = e2
    /\ \A e \in CodeGrants : \A c \in Registered :
          LET r == exchange_authorization_code(Store, c, e.presented, nextId, nextId + 1, now)
          IN  InvalidGrant(r) /\ NoTokenMinted(r.st)

\* a code has been exchanged while it was still unexpired, so that a second
\* call presenting it is refused for having been used, not for its age
C1_Witness ==
    \E e \in CodeGrants : \E m \in minted :
        m.code = e.presented /\ now <= m.at + AUTH_CODE_LIFETIME

(* C2.  A credential issued to one client is never exchanged by another:   *)
(* every token pair an exchange returned went to the client that owned     *)
(* the presented code or refresh token.                                    *)
C2_NoCrossClientExchange ==
    \A e \in issued : e.client_id = e.owner

(* C3.  load_authorization_code and load_refresh_token return None when    *)
(* the stored record belongs to another client than the one presented,     *)
(* and what they return is the record of the presented client.             *)
C3_LoadChecksOwner ==
    /\ \A c \in Registered : \A code \in PresentableCodes :
          LET d == DictGet(data.auth_codes, code)
              r == load_authorization_code(Store, c, code, now)
          IN  /\ (d # None /\ d.client_id # c) => r.result = None
              /\ r.result # None =>
                    /\ d # None /\ d.client_id = c
                    /\ r.result.code = code /\ r.result.client_id = c
                    /\ r.result.code_challenge = d.code_challenge
                    /\ r.result.redirect_uri = d.redirect_uri
                    /\ r.result.expires_at = d.expires_at
    /\ \A c \in Registered : \A token \in PresentableTokens :
          LET d == DictGet(data.refresh_tokens, token)
              r == load_refresh_token(Store, c, token)
          IN  /\ (d # None /\ d.client_id # c) => r.result = None
              /\ r.result # None =>
                    /\ d # None /\ d.client_id = c
                    /\ r.result.token = token /\ r.result.client_id = c
                    /\ r.result.scopes = d.scopes

\* an unexpired code and a refresh token are stored, and a client other
\* than their owner is registered
C3_Witness ==
    /\ \E code \in AuthCodes : \E c \in Registered :
          data.auth_codes[code].client_id # c /\ now <= data.auth_codes[code].expires_at
    /\ \E token \in RefreshTokens : \E c \in Registered :
          data.refresh_tokens[token].client_id # c

\* what holds right after exchange_refresh_token(c, R, scopes) returned r,
\* for the stored record d of R: the old pair is gone and the new pair
\* resolves, bound to the same upstream token
RotationReplacesPair(c, R, d, r) ==
    LET A1 == r.result.access_token
        R1 == r.result.refresh_token
    IN  /\ r.raised = ""
        /\ load_access_token(r.st, d.access_token, now).result = None
        /\ load_refresh_token(r.st, c, R).result = None
        /\ load_access_token(r.st, A1, now).result # None
        /\ load_refresh_token(r.st, c, R1).result # None
        /\ r.st.data.access_tokens[A1].notion_token = d.notion_token
        /\ r.st.data.refresh_tokens[R1].notion_token = d.notion_token

\* the scopes of the pair r was returned with
NewScopes(r) ==
    {r.st.data.access_tokens[r.result.access_token].scopes,
     r.st.data.refresh_tokens[r.result.refresh_token].scopes}

C5_RefreshRotatedOnce ==
    /\ \A e1, e2 \in RefreshGrants : e1.presented = e2.presented => e1 = e2
    /\ \A e \in RefreshGrants : \A c \in Registered : \A scopes \in RequestedScopes :
          LET r == exchange_refresh_token(Store, c, e.presented, scopes, nextId, nextId + 1, now)
          IN  InvalidGrant(r) /\ NoTokenMinted(r.st)

\* a refresh token has been rotated and the pair minted from it is stored
C5_Witness ==
    \E e \in RefreshGrants : e.refresh_token \in RefreshTokens

(* C6.  After revoke_token(t), t and the token issued as its pair are both *)
(* unresolvable, whether t is presented as an AccessToken or as a          *)
(* RefreshToken, and whether or not t's own record is still stored.        *)
C6_RevokeRemovesPair ==
    \A e \in issued : \A c \in Registered :
        LET ra == revoke_token(Store, "AccessToken", e.access_token)
            rr == revoke_token(Store, "RefreshToken", e.refresh_token)
        IN  /\ load_access_token(ra.st, e.access_token, now).result = None
            /\ load_refresh_token(ra.st, c, e.refresh_token).result = None
            /\ load_refresh_token(rr.st, c, e.refresh_token).result = None
            /\ load_access_token(rr.st, e.access_token, now).result = None

(* C7.  load_access_token on a stored access token: while the time is not  *)
(* past expires_at it returns the stored client_id, scopes, expires_at and *)
(* resource and leaves the store as it is; once the time is past           *)
(* expires_at it returns None and the record is removed.                   *)
C7_LoadAccessToken ==
    \A token \in AccessTokens :
        LET d == data.access_tokens[token]
            r == load_access_token(Store, token, now)
        IN  IF now <= d.expires_at
            THEN /\ r.result = [token |-> token, client_id |-> d.client_id,
                                scopes |-> d.scopes, expires_at |-> d.expires_at,
                                resource |-> d.resource]
                 /\ r.st.data = data
            ELSE /\ r.result = None
                 /\ token \notin DOMAIN r.st.data.access_tokens

\* an access token is stored at the very end of its lifetime, another (or
\* the same at another time) past it: here, one stored and expired
C7_Witness ==
    \E token \in AccessTokens : data.access_tokens[token].expires_at < now

(* C8.  A PendingAuthorization is consumed once: no two proxy              *)
(* authorization codes were minted for the same proxy state.               *)
C8_PendingConsumedOnce ==
    \A m1, m2 \in minted : m1.state = m2.state => m1 = m2

C10_EndToEnd ==
    ~flow.late => flow.failed = ""

\* the scenario has run to its end with every step made in time, the clock
\* having advanced on the way
C10_Witness ==
    flow.pc = "done" /\ ~flow.late /\ flow.failed = "" /\ now > 0

(* C11.  Crash safety of persistence: at whatever step of _save the process *)
(* crashes, the live file is at that moment the complete snapshot it held  *)
(* before the write or the complete new snapshot, and the next start loads *)
(* what one of these two holds.                                            *)
C11_CrashSafe ==
    /\ "pre" \in DOMAIN saving => file \in {saving.pre, saving.encrypted}
    /\ (proc = "up" /\ saving.pc = "constructed" /\ "pre" \in DOMAIN saving)
          => data \in {_load(saving.pre), _load(saving.encrypted)}

(* C12.  Startup never fails because of the store file: on a file that is  *)
(* missing, that does not decrypt under the current secret (torn, or       *)
(* written under another secret) or whose plaintext does not parse, the    *)
(* store is constructed with its five collections empty; on a file that    *)
(* decrypts and parses it is constructed with exactly the snapshot in it.  *)
C12_StartupNeverFails ==
    (proc = "up" /\ saving.pc = "constructed") =>
        /\ file = NoFile => data = EmptyData
        /\ (file # NoFile /\ "plaintext" \notin DOMAIN file) => data = EmptyData
        /\ (file # NoFile /\ file.key # SECRET) => data = EmptyData
        /\ ("plaintext" \in DOMAIN file /\ file.key = SECRET /\ file.plaintext = NotJson)
              => data = EmptyData
        /\ ("plaintext" \in DOMAIN file /\ file.key = SECRET
               /\ "json" \in DOMAIN file.plaintext)
              => data = file.plaintext.json

\* the server has been started again on a snapshot that this run wrote and
\* that holds a token
C12_Witness ==
    /\ proc = "up" /\ saving.pc = "constructed" /\ "pre" \in DOMAIN saving
    /\ "plaintext" \in DOMAIN file /\ file.key = SECRET
    /\ HasCollections(data)
    /\ DOMAIN data.refresh_tokens # {}

(* C13.  No success without durability: when a store call that changes the *)
(* collections returns normally, the live file holds the snapshot of the   *)
(* collections as they now are.                                            *)
C13_DurableOnReturn ==
    (proc = "up" /\ saving.pc = "returned") => file = Encrypt(SECRET, json_dumps(data))

(* C14.  The access gate: a request whose method is GET reaches the        *)
(* handler without bearer verification; a request with any other method,   *)
(* or with none, reaches the handler only after bearer verification of the *)
(* token it presented has succeeded.  GET is the only method that passes   *)
(* unverified.                                                             *)
C14_AccessGate ==
    \A r \in DOMAIN requests :
        /\ ScopeMethod(requests[r]) = "GET" => requests[r].pc # "rejected"
        /\ (requests[r].pc \in {"handler", "done"} /\ ScopeMethod(requests[r]) # "GET")
              => /\ requests[r].user # None
                 /\ requests[r].user.token = requests[r].bearer
        /\ requests[r].pc = "rejected" => requests[r].user = None

\* a GET request without a valid token has been handled and a POST request
\* without one has been refused
C14_Witness ==
    \E r1, r2 \in DOMAIN requests :
        /\ requests[r1].method = "GET" /\ requests[r1].user = None
        /\ requests[r1].pc = "done"
        /\ requests[r2].method = "POST" /\ requests[r2].pc = "rejected"

(* C17.  After load_access_token(t) succeeded within a request, the        *)
(* upstream credential the handlers of that request get from               *)
(* patched_get_client is the upstream token bound to t, and never that of  *)
(* another access token, however the steps of concurrent requests          *)
(* interleave.                                                             *)
C17_RequestCredential ==
    \A r \in DOMAIN requests :
        requests[r].user # None =>
            /\ patched_get_client(requests, r).raised = ""
            /\ patched_get_client(requests, r).api_key = BoundTo(requests[r].bearer)
            /\ requests[r].pc = "done" => requests[r].seen = BoundTo(requests[r].bearer)

\* two requests with different tokens have both been handled, each with its
\* own upstream credential
C17_Witness ==
    \E r1, r2 \in DOMAIN requests :
        /\ requests[r1].pc = "done" /\ requests[r1].seen = "ntn_alice"
        /\ requests[r2].pc = "done" /\ requests[r2].seen = "ntn_bob"

\* what the claims on the callback route say of one request, given whether
\* the request counts as carrying an error
CallbackRouteContract(q, has_error) ==
    LET b == notion_oauth_callback_begin(Store, q, now) IN
    /\ has_error => /\ ~b.invoked
                    /\ b.st = Store
                    /\ b.response # None /\ b.response.status = 400
    /\ b.invoked => /\ ~has_error
                    /\ q.code \notin {NoneStr, ""}
                    /\ q.state \notin {NoState, EmptyState}

\* on the success of exchange_notion_code the response is a redirect to the
\* URL it returned
RedirectsOnSuccess ==
    \A call \in inflight, resp \in UpstreamResponses :
        LET e == exchange_notion_code_resume(Store, call.state, call.pending, resp, nextId, now)
            r == notion_oauth_callback_resume(Store, call, resp, nextId, now)
        IN  e.raised = "" => r.response = [status |-> 302, location |-> e.result]

(* C15 (as stated).  Callback route: when the request carries an `error`   *)
(* query parameter, exchange_notion_code is never invoked, the store is    *)
(* unchanged and the response is HTTP 400; exchange_notion_code is invoked *)
(* only when there is no error and both code and state are present, and on *)
(* its success the response is a redirect to the URL it returned.          *)
C15_CallbackRoute ==
    /\ \A q \in Queries : CallbackRouteContract(q, q.error # NoneStr)
    /\ RedirectsOnSuccess

(* C15 (amended).  The same, for a request that carries an `error` query   *)
(* parameter with a non-empty value: an `error` parameter without a value  *)
(* counts as no error.                                                     *)
C15_CallbackRouteNonEmptyError ==
    /\ \A q \in Queries : CallbackRouteContract(q, q.error \notin {NoneStr, ""})
    /\ RedirectsOnSuccess

\* a request that carried an error beside a code and the state of an
\* authorization was answered 400, and another request was answered with a
\* redirect
C15_Witness ==
    /\ \E x \in responses :
          /\ x.query.error = "access_denied" /\ x.query.code # NoneStr
          /\ x.query.state \in {a.state : a \in authorized}
          /\ x.response.status = 400
    /\ \E y \in responses : y.response.status = 302

(* C16.  Upstream error detail never reaches the downstream response: for  *)
(* any two failing answers of the upstream token endpoint, which differ in *)
(* status code or body only, exchange_notion_code raises the same failure  *)
(* and the callback route produces the same HTTP response.                 *)
C16_NoUpstreamDetail ==
    \A call \in inflight, r1, r2 \in FailingResponses :
        LET x == notion_oauth_callback_resume(Store, call, r1, nextId, now)
            y == notion_oauth_callback_resume(Store, call, r2, nextId, now)
        IN  x.raised = y.raised /\ x.response = y.response

C18_ClientNeverRemoved ==
    [][\A c \in DOMAIN data.clients :
          /\ get_client(Store, c) # None
          /\ get_client([data |-> data', file |-> file'], c) = get_client(Store, c)]_vars

\* a client is registered, tokens were issued to it, and one of them has
\* since been rotated, revoked or evicted
C18_Witness ==
    /\ Cardinality(Registered) = MaxClients
    /\ \E e \in issued : e.client_id \in Registered /\ e.access_token \notin AccessTokens
    /\ ticks > 0

(* C20.  rotate_tokens is observably atomic: a store operation that runs   *)
(* concurrently with rotate_tokens never observes a state in which only    *)
(* some of its four effects are applied (old access token removed, old     *)
(* refresh token removed, new access token inserted, new refresh token     *)
(* inserted); it sees all four or none, and the four together are what     *)
(* rotate_tokens computes.                                                 *)
C20_RotationAtomic ==
    /\ \A o \in DOMAIN threads.observers :
          /\ threads.observers[o].pc \in {"reading", "release"}
                => RotationEffects(data) \in {0, 4}
          /\ \A i \in DOMAIN threads.observers[o].seen :
                threads.observers[o].seen[i].effects \in {0, 4}
    /\ threads.rotator \in {"release", "done"}
          => data = rotate_tokens(StoreOfTwo, RotationCall.old_access_token,
                        RotationCall.old_refresh_token, RotationCall.new_access_token,
                        RotationCall.new_access_data, RotationCall.new_refresh_token,
                        RotationCall.new_refresh_data).data

\* one observer found the old refresh token before the rotation and did not
\* find it after, while the other was reading after the rotation
C20_Witness ==
    /\ threads.rotator = "done"
    /\ \E o \in DOMAIN threads.observers :
          LET seen == threads.observers[o].seen IN
          /\ Len(seen) = 2
          /\ seen[1].key = RotationCall.old_refresh_token /\ seen[1].found
          /\ seen[2].key = RotationCall.old_refresh_token /\ ~seen[2].found
    /\ \E o \in DOMAIN threads.observers : threads.observers[o].pc = "reading"

(* C21.  Memory/disk mirror: once a mutating store call has returned       *)
(* normally and no store call is running, the live file decrypts and       *)
(* parses to exactly the five collections held in memory.                  *)
C21_MemoryDiskMirror ==
    (proc = "up" /\ saving.pc = "returned") => _load(file) = data

(* C22.  exchange_notion_code called with a state that has no pending      *)
(* authorization, or whose pending authorization is past its expires_at,   *)
(* raises the not-found error before the upstream token endpoint is        *)
(* called: the call is not suspended at the POST, no authorization code is *)
(* stored, and every callback answered with that error was answered        *)
(* without an upstream response.                                           *)
C22_NotFoundBeforeUpstream ==
    /\ \A code \in NotionCodes : \A state \in PresentableStates :
          LET d == DictGet(data.pending_auth, state)
              r == exchange_notion_code_lookup(Store, code, state, now)
              b == notion_oauth_callback_begin(Store,
                      [code |-> code, state |-> state, error |-> NoneStr], now)
          IN  (d = None \/ d.expires_at < now) =>
                 /\ r.raised = "ValueError"
                 /\ r.message = "Unknown or expired auth state"
                 /\ r.pending = None
                 /\ r.st.data.auth_codes = data.auth_codes
                 /\ ~b.suspended
    /\ \A x \in responses :
          x.response.status # 302 /\ x.response.detail = "Unknown or expired auth state"
             => x.upstream = None
    /\ \A call \in inflight : call.pending # None

\* a callback carrying a state that authorize handed out, presented after
\* the pending authorization had expired and with nothing minted for it, was
\* answered with the not-found error
C22_Witness ==
    \E x \in responses : \E a \in authorized :
        /\ a.state = x.query.state
        /\ a.at + PENDING_AUTH_LIFETIME < now
        /\ minted = {}
        /\ x.response.status = 400
        /\ x.response.detail = "Unknown or expired auth state"
        /\ x.upstream = None

\* What the downstream client reads from the query string of the redirect
\* (urllib.parse.parse_qsl): the fields between "&", each split at its first
\* "=", both sides unquoted
Unhex(h) ==
    CASE h = "26" -> "&"
      [] h = "3D" -> "="
      [] h = "2B" -> "+"
      [] h = "25" -> "%"
      [] h = "3F" -> "?"
      [] h = "23" -> "#"

RECURSIVE unquote_plus(_)
unquote_plus(cs) ==
    IF cs = <<>> THEN <<>>
    ELSE IF Head(cs) = "+" THEN <<" ">> \o unquote_plus(Tail(cs))
    ELSE IF Head(cs) = "%" /\ Len(cs) >= 2
    THEN <<Unhex(cs[2])>> \o unquote_plus(SubSeq(cs, 3, Len(cs)))
    ELSE <<Head(cs)>> \o unquote_plus(Tail(cs))

RECURSIVE Split(_, _)
Split(cs, sep) ==
    IF \E i \in 1 .. Len(cs) : cs[i] = sep
    THEN LET i == CHOOSE k \in 1 .. Len(cs) : cs[k] = sep /\ \A j \in 1 .. k - 1 : cs[j] # sep
         IN  <<SubSeq(cs, 1, i - 1)>> \o Split(SubSeq(cs, i + 1, Len(cs)), sep)
    ELSE <<cs>>

\* the values the query string carries under a key
QueryValues(query, key) ==
    LET fields == Split(query, "&")
        Key(f) == unquote_plus(Split(f, "=")[1])
        Value(f) == IF Len(Split(f, "=")) >= 2 THEN unquote_plus(Split(f, "=")[2]) ELSE <<>>
    IN  {Value(fields[i]) : i \in {k \in 1 .. Len(fields) : Key(fields[k]) = key}}

\* the redirect of a callback, for the authorize call a that opened the flow
RedirectTargetsClient(url, a) ==
    /\ url.redirect_uri = a.params.redirect_uri
    /\ url.separator = (IF a.params.redirect_uri.has_query THEN "&" ELSE "?")
    /\ \E m \in minted : m.state = a.state /\ QueryValues(url.query, Chars("code")) = {TokenChars(m.code)}
    /\ \A i \in 1 .. Len(url.query) : url.query[i] # ToString(a.state)

(* C23.  The redirect URL of a successful exchange_notion_code targets the *)
(* redirect_uri of the pending record and carries the newly minted proxy   *)
(* code; it carries a state parameter, equal to the downstream state given *)
(* at authorize, if and only if one was supplied; it never carries the     *)
(* proxy-side state.                                                       *)
C23_RedirectUrl ==
    \A x \in responses : x.response.status = 302 =>
        \E a \in authorized :
            /\ a.state = x.query.state
            /\ RedirectTargetsClient(x.response.location, a)
            /\ LET states == QueryValues(x.response.location.query, Chars("state"))
               IN  IF a.params.state = NoneStr
                   THEN states = {}
                   ELSE states = {Chars(a.params.state)}

\* what holds of the AuthorizationCode loaded for a minted code m of the
\* flow opened by the authorize call a, apart from scopes and resource
LoadedForOwner(m, a, r) ==
    /\ r.result # None
    /\ r.result.code = m.code
    /\ r.result.client_id = a.client_id
    /\ r.result.code_challenge = a.params.code_challenge
    /\ r.result.redirect_uri = a.params.redirect_uri
    /\ r.result.redirect_uri_provided_explicitly = a.params.redirect_uri_provided_explicitly

(* C24 as stated.  Metadata pass-through: for every proxy code minted by   *)
(* exchange_notion_code for a state, as long as the code is stored and not *)
(* expired, load_authorization_code by the owning client returns the       *)
(* client_id, code_challenge, redirect_uri, scopes and resource given to   *)
(* the authorize call that created the state.                              *)
C24_MetadataPassThrough ==
    \A m \in minted : \A a \in authorized :
        a.state = m.state =>
            LET d == DictGet(data.auth_codes, m.code)
                r == load_authorization_code(Store, a.client_id, m.code, now)
            IN  (d # None /\ now <= d.expires_at) =>
                    /\ LoadedForOwner(m, a, r)
                    /\ r.result.scopes = a.params.scopes
                    /\ r.result.resource = a.params.resource

(* C24, amended.  The same, with the scopes returned as a list (the empty  *)
(* list when authorize was given none) and the resource returned as none   *)
(* when authorize was given none or an empty one.                          *)
C24_MetadataNormalised ==
    \A m \in minted : \A a \in authorized :
        a.state = m.state =>
            LET d == DictGet(data.auth_codes, m.code)
                r == load_authorization_code(Store, a.client_id, m.code, now)
            IN  (d # None /\ now <= d.expires_at) =>
                    /\ LoadedForOwner(m, a, r)
                    /\ r.result.scopes = OrEmpty(a.params.scopes)
                    /\ r.result.resource
                          = (IF Truthy(a.params.resource) THEN a.params.resource ELSE NoneStr)

\* a minted code is stored and loadable, for a flow opened without scopes
C24_Witness ==
    \E m \in minted : \E a \in authorized :
        /\ a.state = m.state
        /\ a.params.scopes = NoneScopes
        /\ m.code \in AuthCodes
        /\ now <= data.auth_codes[m.code].expires_at
        /\ load_authorization_code(Store, a.client_id, m.code, now).result # None

\* the upstream token that the upstream exchange returned for the flow an
\* issued pair descends from: the one of the minted code for a pair issued
\* for a code, the one of the pair that was rotated for a pair issued for a
\* refresh token
RECURSIVE UpstreamOf(_)
UpstreamOf(e) ==
    IF e.grant = "authorization_code"
    THEN (CHOOSE m \in minted : m.code = e.presented).notion_token
    ELSE UpstreamOf(CHOOSE p \in issued : p.refresh_token = e.presented)

(* C25.  Upstream-binding lineage: every stored access token and every     *)
(* stored refresh token is bound to the upstream token that the upstream   *)
(* exchange returned for the authorization flow it descends from, through  *)
(* the code exchange and the rotations; a stored access token and the      *)
(* stored refresh token it is paired with are bound to the same upstream   *)
(* token.                                                                  *)
C25_UpstreamLineage ==
    /\ \A token \in AccessTokens :
          \E e \in issued :
             /\ e.access_token = token
             /\ data.access_tokens[token].notion_token = UpstreamOf(e)
    /\ \A token \in RefreshTokens :
          \E e \in issued :
             /\ e.refresh_token = token
             /\ data.refresh_tokens[token].notion_token = UpstreamOf(e)
    /\ \A token \in AccessTokens :
          LET R == data.access_tokens[token].refresh_token
          IN  R \in RefreshTokens =>
                 data.refresh_tokens[R].notion_token = data.access_tokens[token].notion_token
    /\ \A token \in RefreshTokens :
          LET A == data.refresh_tokens[token].access_token
          IN  A \in AccessTokens =>
                 data.access_tokens[A].notion_token = data.refresh_tokens[token].notion_token

\* a pair obtained by rotation is stored, while two codes bound to
\* different upstream tokens have been minted
C25_Witness ==
    /\ \E e \in issued :
          /\ e.grant = "refresh_token"
          /\ e.access_token \in AccessTokens
          /\ e.refresh_token \in RefreshTokens
    /\ \E m1 \in minted : \E m2 \in minted : m1.notion_token # m2.notion_token

(* C26.  exchange_refresh_token called without requested scopes (the empty *)
(* list) stores a new access/refresh pair whose scopes are the scopes      *)
(* stored with the presented refresh token; whatever scopes are requested, *)
(* the resource of the new pair is the resource stored with the presented  *)
(* refresh token.                                                          *)
C26_RefreshCarriesForward ==
    \A c \in Registered : \A token \in RefreshTokens : \A scopes \in RequestedScopes :
        LET d == data.refresh_tokens[token]
            r == exchange_refresh_token(Store, c, token, scopes, nextId, nextId + 1, now)
            A == DictGet(r.st.data.access_tokens, nextId)
            R == DictGet(r.st.data.refresh_tokens, nextId + 1)
        IN  /\ r.raised = ""
            /\ A # None /\ R # None
            /\ A.resource = d.resource /\ R.resource = d.resource
            /\ scopes = <<>> => (A.scopes = d.scopes /\ R.scopes = d.scopes)

\* a pair issued by a rotation without requested scopes is stored, bound to
\* a resource and to the scopes of the rotated refresh token
C26_Witness ==
    \E e \in issued :
        /\ e.grant = "refresh_token"
        /\ e.old_scopes # <<>>
        /\ e.access_token \in AccessTokens /\ e.refresh_token \in RefreshTokens
        /\ data.access_tokens[e.access_token].scopes = e.old_scopes
        /\ data.refresh_tokens[e.refresh_token].scopes = e.old_scopes
        /\ data.refresh_tokens[e.refresh_token].resource # NoneStr

\* a step removes key k from a collection by ...
\* ... a lookup of k that finds it expired
EvictedByGet ==
    [pending_auth |-> [k \in DOMAIN data.pending_auth |->
                          get_pending_auth(Store, k, now).st.data],
     auth_codes |-> [k \in DOMAIN data.auth_codes |-> get_auth_code(Store, k, now).st.data],
     access_tokens |-> [k \in DOMAIN data.access_tokens |->
                          get_access_token(Store, k, now).st.data]]

\* ... the delete_pending_auth(k) that ends a suspended exchange_notion_code
PendingDeleted(k) ==
    \E call \in inflight : \E resp \in UpstreamResponses :
        /\ call.state = k
        /\ data' = exchange_notion_code_resume(Store, k, call.pending, resp, nextId, now).st.data

\* ... the delete_auth_code(k) that ends exchange_authorization_code
CodeDeleted(k) ==
    \E c \in Registered :
        data' = exchange_authorization_code(Store, c, k, nextId, nextId + 1, now).st.data

\* ... a revocation of k, a revocation of the refresh token paired with k,
\* or a rotation of the refresh token paired with k
AccessDeleted(k) ==
    \/ data' = revoke_token(Store, "AccessToken", k).st.data
    \/ \E R \in RefreshTokens :
          /\ data.refresh_tokens[R].access_token = k
          /\ \/ data' = revoke_token(Store, "RefreshToken", R).st.data
             \/ \E c \in Registered : \E scopes \in RequestedScopes :
                   data' = exchange_refresh_token(Store, c, R, scopes,
                                                  nextId, nextId + 1, now).st.data

\* a lookup of key k in one collection leaves every other key of the
\* collection and every other collection as they were
GetTouchesOwnKeyOnly(after, collection, k) ==
    /\ \A other \in DOMAIN data \ {collection} : after[other] = data[other]
    /\ DOMAIN after[collection] \in {DOMAIN data[collection], DOMAIN data[collection] \ {k}}
    /\ \A j \in DOMAIN after[collection] : after[collection][j] = data[collection][j]

(* C27.  Lazy eviction only: a step in which time passes changes neither   *)
(* the collections nor the file; a record of pending_auth, auth_codes or   *)
(* access_tokens leaves its collection only in a lookup of its own key     *)
(* that finds it expired, or in an explicit delete, a rotation or a        *)
(* cascading delete that names it; and a lookup of key k (stored or not)   *)
(* adds, removes and changes no record of another key or of another        *)
(* collection.                                                             *)
C27_LazyEvictionOnly ==
    /\ [](/\ \A k \in PresentableStates :
               GetTouchesOwnKeyOnly(get_pending_auth(Store, k, now).st.data, "pending_auth", k)
          /\ \A k \in PresentableCodes :
               GetTouchesOwnKeyOnly(get_auth_code(Store, k, now).st.data, "auth_codes", k)
          /\ \A k \in PresentableTokens :
               /\ GetTouchesOwnKeyOnly(get_access_token(Store, k, now).st.data,
                                       "access_tokens", k)
               /\ get_refresh_token(Store, k) = DictGet(data.refresh_tokens, k))
    /\ [][/\ now' # now => (data' = data /\ file' = file)
          /\ \A k \in DOMAIN data.pending_auth \ DOMAIN data'.pending_auth :
               \/ data' = EvictedByGet.pending_auth[k] /\ data.pending_auth[k].expires_at < now
               \/ PendingDeleted(k)
          /\ \A k \in DOMAIN data.auth_codes \ DOMAIN data'.auth_codes :
               \/ data' = EvictedByGet.auth_codes[k] /\ data.auth_codes[k].expires_at < now
               \/ CodeDeleted(k)
          /\ \A k \in DOMAIN data.access_tokens \ DOMAIN data'.access_tokens :
               \/ data' = EvictedByGet.access_tokens[k] /\ data.access_tokens[k].expires_at < now
               \/ AccessDeleted(k)]_vars

\* time has passed and left behind an expired authorization code and an
\* expired access token, both still stored
C27_Witness ==
    /\ \E k \in AuthCodes : data.auth_codes[k].expires_at < now
    /\ \E k \in AccessTokens : data.access_tokens[k].expires_at < now

\* a step removes the refresh token R by rotating it ...
RefreshRotated(R) ==
    \E c \in Registered : \E scopes \in RequestedScopes :
        data' = exchange_refresh_token(Store, c, R, scopes, nextId, nextId + 1, now).st.data

\* ... or by revoking it, directly or through the access token paired with it
RefreshRevoked(R) ==
    \/ data' = revoke_token(Store, "RefreshToken", R).st.data
    \/ \E A \in AccessTokens :
          /\ data.access_tokens[A].refresh_token = R
          /\ data' = revoke_token(Store, "AccessToken", A).st.data

(* C28.  A refresh token never expires on its own: it stays stored from    *)
(* its creation until a step that rotates or revokes it, and as long as it *)
(* is stored load_refresh_token by its owning client returns it, whatever  *)
(* the time and whether or not its paired access token is still stored.    *)
C28_RefreshNeverExpires ==
    /\ [](\A R \in RefreshTokens :
             LET d == data.refresh_tokens[R]
             IN  load_refresh_token(Store, d.client_id, R) =
                    [st |-> Store,
                     result |-> [token |-> R, client_id |-> d.client_id, scopes |-> d.scopes]])
    /\ [][\A R \in RefreshTokens \ DOMAIN data'.refresh_tokens :
             RefreshRotated(R) \/ RefreshRevoked(R)]_vars

\* a refresh token is stored and loadable after its paired access token
\* has expired and been evicted
C28_Witness ==
    \E e \in issued :
        /\ e.refresh_token \in RefreshTokens
        /\ e.access_token \notin AccessTokens
        /\ data.refresh_tokens[e.refresh_token].access_token = e.access_token
        /\ e.at + ACCESS_TOKEN_LIFETIME < now
        /\ load_refresh_token(Store, data.refresh_tokens[e.refresh_token].client_id,
                              e.refresh_token).result # None

\* the values the three loaders return in the not-found cases: unknown
\* identifier, expired record, record of another client
NotFoundResults ==
    {load_authorization_code(Store, c, code, now).result :
        <<c, code>> \in {x \in Registered \X PresentableCodes :
            LET d == DictGet(data.auth_codes, x[2])
            IN  d = None \/ d.expires_at < now \/ d.client_id # x[1]}}
    \cup
    {load_refresh_token(Store, c, token).result :
        <<c, token>> \in {x \in Registered \X PresentableTokens :
            LET d == DictGet(data.refresh_tokens, x[2])
            IN  d = None \/ d.client_id # x[1]}}
    \cup
    {load_access_token(Store, token, now).result :
        token \in {x \in PresentableTokens :
            LET d == DictGet(data.access_tokens, x)
            IN  d = None \/ d.expires_at < now}}

(* C29.  NotFound is indistinguishable by cause: load_authorization_code,  *)
(* load_refresh_token and load_access_token return one and the same value, *)
(* None, whether the identifier is unknown, the record is expired or the   *)
(* record belongs to another client than the one presenting it.            *)
C29_NotFoundIndistinguishable == NotFoundResults \subseteq {None}

\* the three causes are present together: an identifier that was never
\* issued, a stored code that has expired, and a stored refresh token of
\* another client than one that is registered
C29_Witness ==
    /\ Unknown \in PresentableCodes
    /\ \E code \in AuthCodes : data.auth_codes[code].expires_at < now
    /\ \E token \in RefreshTokens : \E c \in Registered :
          data.refresh_tokens[token].client_id # c
    /\ NotFoundResults = {None}

---------------------------------------------------------------------------
(* The lock and the upstream call                                          *)
(* exchange_notion_code calls get_pending_auth, awaits the upstream POST,  *)
(* then calls store_auth_code and delete_pending_auth.  Each store call    *)
(* takes the lock on entry and gives it back when its `with` block ends.   *)
(* While the exchange waits for the upstream answer other tasks run store  *)
(* operations: load_access_token, and authorize for another flow.          *)

MaxOtherTasks == 2

MaxOtherCalls == 2

MaxAwaitTicks == 2

\* mutant: the lock taken by the lookup is still held when it returns
LockAfterReturn_held(holder) == holder

\* the lock when a store call returns: the `with self._lock` block has ended
LockAfterReturn(holder) == "free"

\* the flow the callback belongs to: client 1 has been through authorize,
\* which generated the state 7
FlowAwaiting ==
    [state |-> 7, client_id |-> 1,
     params |-> CHOOSE p \in AuthorizationParams : p.state = NoneStr, at |-> 0]

\* the store before the callback arrives: two clients with a token pair
\* each, and the pending authorization of that flow
StoreAwaiting == authorize(StoreOfTwo, 1, FlowAwaiting.params, 7, 0).st

\* the store operations other tasks run: the call, and the store it leaves
OtherCalls(st, t) ==
    {[op |-> "load_access_token", st |-> load_access_token(st, token, t).st,
      authorized |-> {}] : token \in {3, 5, Unknown}}
    \cup {[op |-> "authorize", st |-> authorize(st, 2, params, nextId, t).st,
           authorized |-> {[state |-> nextId, client_id |-> 2, params |-> params, at |-> t]}] :
              params \in AuthorizationParams}

InitAwait ==
    /\ data = StoreAwaiting.data
    /\ file = StoreAwaiting.file
    /\ now = 0
    /\ ticks = 0
    /\ nextId = 8
    /\ inflight = {}
    /\ authorized = {FlowAwaiting}
    /\ minted = {}
    /\ issued = IssuedOfTwo
    /\ flow = NoFlow
    /\ saving = NoSave
    /\ proc = "up"
    /\ requests = <<>>
    /\ responses = {}
    /\ threads = [lock |-> "free",
                  exchange |-> [pc |-> "start", state |-> Unknown, pending |-> None,
                                resp |-> None],
                  others |-> [i \in 1 .. MaxOtherTasks |->
                                 [pc |-> "idle", done |-> 0, in_wait |-> FALSE,
                                  completed_in_wait |-> FALSE]]]

\* what stays the same in every step of this specification
AwaitFrame == UNCHANGED <<inflight, minted, issued, flow, saving, proc, requests, responses>>

\* the time passes while the exchange waits
AwaitTick ==
    /\ threads.exchange.pc = "awaiting"
    /\ ticks < MaxAwaitTicks
    /\ now' = now + 1
    /\ ticks' = ticks + 1
    /\ UNCHANGED <<data, file, nextId, authorized, threads>>
    /\ AwaitFrame

\* pending = self.store.get_pending_auth(state): the lock is taken and the
\* lookup done
AwaitLookup ==
    /\ threads.exchange.pc = "start"
    /\ Acquirable(threads.lock)
    /\ \E state \in {7, Unknown} :
          LET r == exchange_notion_code_lookup(Store, "notion-code-1", state, now)
          IN  /\ data' = r.st.data
              /\ file' = r.st.file
              /\ threads' = [threads EXCEPT
                    !.lock = "exchange",
                    !.exchange = [pc |-> "in_lookup", state |-> state,
                                  pending |-> r.pending, resp |-> None]]
    /\ UNCHANGED <<now, ticks, nextId, authorized>>
    /\ AwaitFrame

\* get_pending_auth returns; the call raises or goes on to await the POST
AwaitLookupReturn ==
    /\ threads.exchange.pc = "in_lookup"
    /\ threads' = [threads EXCEPT
          !.lock = LockAfterReturn("exchange"),
          !.exchange.pc = IF threads.exchange.pending = None THEN "raised" ELSE "awaiting"]
    /\ UNCHANGED <<data, file, now, ticks, nextId, authorized>>
    /\ AwaitFrame

\* the upstream answer arrives
AwaitUpstream ==
    /\ threads.exchange.pc = "awaiting"
    /\ \E resp \in UpstreamResponses :
          threads' = [threads EXCEPT !.exchange.pc = "responded", !.exchange.resp = resp]
    /\ UNCHANGED <<data, file, now, ticks, nextId, authorized>>
    /\ AwaitFrame

\* the rest of exchange_notion_code: it raises on a failing answer, else
\* store_auth_code and delete_pending_auth take and give back the lock
AwaitFinish ==
    /\ threads.exchange.pc = "responded"
    /\ LET e == threads.exchange
           r == exchange_notion_code_resume(Store, e.state, e.pending, e.resp, nextId, now)
       IN  /\ r.raised = "" => Acquirable(threads.lock)
           /\ data' = r.st.data
           /\ file' = r.st.file
           /\ nextId' = IF r.raised = "" THEN nextId + 1 ELSE nextId
           /\ threads' = [threads EXCEPT
                 !.exchange.pc = IF r.raised = "" THEN "returned" ELSE "raised"]
    /\ UNCHANGED <<now, ticks, authorized>>
    /\ AwaitFrame

\* another task enters a store operation: the lock is taken and the
\* operation done
OtherEnter ==
    /\ \E i \in 1 .. MaxOtherTasks :
          /\ threads.others[i].pc = "idle"
          /\ threads.others[i].done < MaxOtherCalls
          /\ Acquirable(threads.lock)
          /\ \E call \in OtherCalls(Store, now) :
                /\ data' = call.st.data
                /\ file' = call.st.file
                /\ nextId' = IF call.authorized # {} THEN nextId + 1 ELSE nextId
                /\ authorized' = authorized \cup call.authorized
                /\ threads' = [threads EXCEPT
                      !.lock = "other",
                      !.others[i].pc = "in_store",
                      !.others[i].in_wait = (threads.exchange.pc = "awaiting")]
    /\ UNCHANGED <<now, ticks>>
    /\ AwaitFrame

\* the store operation of the other task returns
OtherReturn ==
    /\ \E i \in 1 .. MaxOtherTasks :
          /\ threads.others[i].pc = "in_store"
          /\ threads' = [threads EXCEPT
                !.lock = LockAfterReturn("other"),
                !.others[i].pc = "idle",
                !.others[i].done = @ + 1,
                !.others[i].completed_in_wait =
                    (threads.others[i].in_wait /\ threads.exchange.pc = "awaiting")]
    /\ UNCHANGED <<data, file, now, ticks, nextId, authorized>>
    /\ AwaitFrame

NextAwait ==
    \/ AwaitTick
    \/ AwaitLookup
    \/ AwaitLookupReturn
    \/ AwaitUpstream
    \/ AwaitFinish
    \/ OtherEnter
    \/ OtherReturn

SpecAwait == InitAwait /\ [][NextAwait]_vars

(* C30.  The store lock is never held across the upstream call: while      *)
(* exchange_notion_code waits for the upstream answer the exchange does    *)
(* not hold the lock; the lock is free or held by another task that is     *)
(* inside a store operation and gives it back, and whenever it is free a   *)
(* task that wants to run a store operation can enter it.                  *)
C30_LockFreeWhileAwaiting ==
    threads.exchange.pc = "awaiting" =>
        /\ threads.lock # "exchange"
        /\ threads.lock = "free"
              \/ (threads.lock = "other" /\ \E i \in 1 .. MaxOtherTasks :
                                               threads.others[i].pc = "in_store")
        /\ (\E i \in 1 .. MaxOtherTasks :
               threads.others[i].pc = "idle" /\ threads.others[i].done < MaxOtherCalls)
              => (threads.lock = "free" => ENABLED OtherEnter)
        /\ (\E i \in 1 .. MaxOtherTasks : threads.others[i].pc = "in_store")
              => ENABLED OtherReturn

\* a store operation of another task began and ended while the exchange
\* was waiting for the upstream answer
C30_Witness ==
    /\ threads.exchange.pc = "awaiting"
    /\ \E i \in 1 .. MaxOtherTasks : threads.others[i].completed_in_wait

(* C31.  The upstream credential set by load_access_token is not retained  *)
(* beyond its request: a request whose bearer verification did not         *)
(* succeed (no token, load_access_token returned None, also when the gate  *)
(* let it pass as a GET) has no upstream credential, and                   *)
(* patched_get_client raises in it whatever earlier requests have set.     *)
C31_NoCredentialRetained ==
    \A r \in DOMAIN requests :
        (requests[r].pc # "authenticate" /\ requests[r].user = None) =>
            /\ requests[r].client = NoClient
            /\ patched_get_client(requests, r).raised = "RuntimeError"
            /\ requests[r].pc = "done" => requests[r].seen = "RuntimeError"

\* a request was served with the credential of its token, and a later GET
\* request whose token was not accepted reached the handler and got none
C31_Witness ==
    \E r1, r2 \in DOMAIN requests :
        /\ r1 < r2
        /\ requests[r1].pc = "done" /\ requests[r1].seen = "ntn_alice"
        /\ requests[r2].method = "GET" /\ requests[r2].bearer # NoBearer
        /\ requests[r2].user = None
        /\ requests[r2].pc = "done" /\ requests[r2].seen = "RuntimeError"

(* C32.  State unchanged on persistence failure: when _save fails inside a *)
(* mutating store operation, the collections in memory at the moment the   *)
(* operation raises are the collections in memory before the call.         *)
C32_UnchangedOnSaveFailure ==
    [][(saving.pc \notin {"constructed", "returned", "raised", "crashed"}
        /\ saving'.pc = "raised") => data' = saving.before]_vars

\* the suspended calls that end in this step without a code being minted:
\* exchange_notion_code has raised after the upstream answer
FailedExchanges == IF minted' = minted THEN inflight \ inflight' ELSE {}

\* a callback made at time t on store st with the state of call c and a code
\* that the upstream endpoint accepts runs to its redirect
CanStillSucceed(st, c, t) ==
    \A code \in NotionCodes, resp \in AcceptingResponses :
        LET l == exchange_notion_code_lookup(st, code, c.state, t)
            r == exchange_notion_code_resume(l.st, c.state, l.pending, resp, nextId, t)
        IN  /\ l.raised = ""
            /\ r.raised = ""
            /\ nextId \in DOMAIN r.st.data.auth_codes

(* C33.  A failed upstream exchange leaves the store unchanged: when       *)
(* exchange_notion_code raises on the upstream answer (an error status, a  *)
(* body that is not JSON, a body without access_token), the collections    *)
(* and the file are what they were, as they are across the lookup that     *)
(* preceded the upstream call; the pending authorization of that state,    *)
(* unless it has expired or another callback has consumed it, is still     *)
(* stored, and a callback with the same state and a code the upstream      *)
(* accepts succeeds now and up to the expiry.                              *)
C33_FailedExchangeKeepsStore ==
    [][/\ (inflight' # inflight /\ inflight \subseteq inflight') =>
              (data' = data /\ file' = file)
       /\ \A c \in FailedExchanges :
            /\ data' = data
            /\ file' = file
            /\ (~(c.pending.expires_at < now) /\ ~\E m \in minted : m.state = c.state) =>
                  /\ DictGet(data'.pending_auth, c.state) = c.pending
                  /\ \A t \in {now, c.pending.expires_at} :
                        CanStillSucceed([data |-> data', file |-> file'], c, t)]_vars

\* a callback failed on the upstream answer, and the same callback made
\* again was redirected with a proxy code
C33_Witness ==
    \E r1, r2 \in responses :
        /\ r1.query = r2.query
        /\ r1.upstream \in FailingResponses
        /\ r2.upstream \in AcceptingResponses
        /\ r2.response.status = 302

\* the set of scopes in a list of scopes (None: no scope)
ScopeSet(scopes) == {OrEmpty(scopes)[i] : i \in 1 .. Len(OrEmpty(scopes))}

\* the scopes requested at the authorize call of the flow an issued pair
\* descends from
RECURSIVE AuthorizedScopesOf(_)
AuthorizedScopesOf(e) ==
    IF e.grant = "authorization_code"
    THEN LET m == CHOOSE x \in minted : x.code = e.presented
             a == CHOOSE x \in authorized : x.state = m.state
         IN  ScopeSet(a.params.scopes)
    ELSE AuthorizedScopesOf(CHOOSE p \in issued : p.refresh_token = e.presented)

(* C34.  No scope escalation through refresh: the scopes of every stored   *)
(* access token and of every stored refresh token are among the scopes     *)
(* requested at the authorize call of the flow the token descends from,    *)
(* whatever scopes were passed to exchange_refresh_token.                  *)
C34_NoScopeEscalation ==
    /\ \A token \in AccessTokens :
          \A e \in issued :
             e.access_token = token =>
                ScopeSet(data.access_tokens[token].scopes) \subseteq AuthorizedScopesOf(e)
    /\ \A token \in RefreshTokens :
          \A e \in issued :
             e.refresh_token = token =>
                ScopeSet(data.refresh_tokens[token].scopes) \subseteq AuthorizedScopesOf(e)

\* the tokens that were issued in one pair with token t
PairedWith(t) ==
    {e.refresh_token : e \in {x \in issued : x.access_token = t}}
        \cup {e.access_token : e \in {x \in issued : x.refresh_token = t}}

\* the records of collection c under the keys outside gone are in after as
\* they are in before, and after has no key that before has not
SameExcept(before, after, gone) ==
    /\ DOMAIN after \subseteq DOMAIN before
    /\ \A k \in DOMAIN before \ gone : k \in DOMAIN after /\ after[k] = before[k]

(* C35.  Revocation frame: revoke_token(t) removes at most t and the token *)
(* issued as its pair; every other access token and refresh token, and all *)
(* clients, pending authorizations and authorization codes are unchanged;  *)
(* revoking a token that is not stored (unknown, or revoked before)        *)
(* changes no record and returns None as for a stored one.                 *)
C35_RevocationFrame ==
    \A token_type \in {"AccessToken", "RefreshToken"} : \A token \in PresentableTokens :
        LET r == revoke_token(Store, token_type, token)
            gone == {token} \cup PairedWith(token)
            own == IF token_type = "AccessToken" THEN AccessTokens ELSE RefreshTokens
        IN  /\ r.result = None
            /\ r.st.data.clients = data.clients
            /\ r.st.data.pending_auth = data.pending_auth
            /\ r.st.data.auth_codes = data.auth_codes
            /\ SameExcept(data.access_tokens, r.st.data.access_tokens, gone)
            /\ SameExcept(data.refresh_tokens, r.st.data.refresh_tokens, gone)
            /\ token \notin own => r.st.data = data

\* a pair has been revoked (its refresh token is gone and was not rotated)
\* while another pair, a pending authorization or a code is still stored
C35_Witness ==
    \E e \in issued :
        /\ e.refresh_token \notin RefreshTokens
        /\ ~\E p \in RefreshGrants : p.presented = e.refresh_token
        /\ e.access_token \notin AccessTokens
        /\ \E e2 \in issued \ {e} :
              e2.access_token \in AccessTokens /\ e2.refresh_token \in RefreshTokens

(* C36.  Store shape: in every state after construction, whatever the      *)
(* store file held at startup, the document in memory has exactly the five *)
(* collections clients, pending_auth, auth_codes, access_tokens and        *)
(* refresh_tokens, so that no store call fails for a missing collection.   *)
C36_StoreShape ==
    proc = "up" => (DOMAIN data = Collections /\ ~ENABLED SaveKeyError)

=============================================================================
